---- MODULE Spec2Model ----
(***************************************************************************)
(* A model of the PostHog plugin server.                                   *)
(*                                                                         *)
(* Part I  (SpecIdentity): the person-identity resolver of                 *)
(*   EventsProcessor (process-event.ts) over the DB class (db.ts).  Every  *)
(*   async function activation is a task; one action is one database query *)
(*   executing, followed by the caller's code up to its next await.  A     *)
(*   call that the code does not await is a new task that runs on its own: *)
(*   its rejection reaches no try/catch of the caller.                     *)
(*                                                                         *)
(* Part II (SpecPlugins): setupPlugins, createLazyPluginVM and the         *)
(*   per-team plugin pipeline.                                             *)
(***************************************************************************)
EXTENDS Integers, Sequences, FiniteSets, Bags, TLC

\* ------------------------------------------------------------------ bounds
MaxEvents == 1        \* events in one run of the events scenario
MaxDbFailures == 2    \* INSERTs into posthog_person the store may refuse
MaxTime == 2          \* created_at values of the persons of the merge scenario

DistinctIds == {"A", "B"}
Keys == {"k1", "k2"}
Vals == {1, 2}
Times == 1..MaxTime

VARIABLES
    \* ---- Part I
    scenario,      \* which starting situation this behaviour explores
    pending,       \* ingress events not yet handed to processEvent
    history,       \* events handed to processEvent so far
    tasks,         \* bag of running async function activations
    persons,       \* posthog_person: id -> row
    pdi,           \* posthog_persondistinctid rows
    cohortpeople,  \* posthog_cohortpeople rows
    nextPersonId,  \* serial of posthog_person.id
    kafkaPerson,   \* latest message per person on the KAFKA_PERSON topic
    published,     \* events sent to the events topic (by position in the input)
    unhandled,     \* functions whose un-awaited promise was rejected
    injected,      \* person INSERTs the store has refused so far
    overlap,       \* an event was started while tasks of an earlier one still ran
    maxRuns,       \* most executions of the alias body seen for one alias call
    persons0,      \* posthog_person at the start of the behaviour
    \* ---- Part II
    pluginRows,    \* posthog_plugin: id -> row
    configRows,    \* posthog_pluginconfig rows
    srvPlugins,    \* server.plugins
    srvConfigs,    \* server.pluginConfigs: id -> config object
    srvPerTeam,    \* server.pluginConfigsPerTeam: team -> configs in order
    vms,           \* the lazy VM handles created so far
    errorLog,      \* configs processError was called for
    setups,        \* setupPlugins calls made
    run,           \* the pipeline run of the current event
    pipelineRuns,  \* pipeline runs started
    downstream,    \* pipeline runs whose event went on to ingestion
    \* ---- Part III
    lzCounter,     \* LazyPluginVM.totalInitAttemptsCounter
    lzPromises,    \* the promises resolveInternalVm has been, the last one current
    lzPhase,       \* where the initialization of the VM stands
    lzAttempts,    \* createPluginConfigVM calls made for this VM
    lzLast,        \* how the last finished attempt ended, and the counter then
    lzDisabled,    \* disablePlugin was called for the config
    lzErrors,      \* processError calls for the config
    lzReads,       \* readers of the handle: the promise they await, what they got
    \* ---- Part IV
    rlOwner,       \* the replica whose lock the resource key holds in Redis, 0 if free
    rlPhase,       \* per replica: the timer pending or the Redis call in flight
    rlResult,      \* per replica: the outcome of the Redis call in flight
    rlWeHaveTheLock, \* per replica: weHaveTheLock
    rlStopped,     \* per replica: stopped
    rlWorking,     \* per replica: onLock has started the scheduled work, onUnlock not yet run
    rlFailures,    \* Redis calls that failed for another reason than the lock being taken
    \* ---- Part V
    qcBroker,      \* the messages in the ingress broker that the consumer has not polled
    qcSubmitted,   \* how many messages were sent to the broker so far
    qcPaused,      \* queue.isPaused()
    qcInFlight,    \* the consumer's live count inFlight
    qcActive,      \* the pipeline tasks that run in the pool
    qcQueue,       \* piscina's queue: the tasks that wait for a free slot
    qcRuns,        \* per message, how many times its pipeline task has run
    qcPausedTimes, \* how many times the consumer has paused
    \* ---- Part VI
    poolRunning,   \* per worker thread: the tasks it executes
    poolQueue,     \* piscina.queueSize: the tasks that wait for a worker
    poolSubmitted, \* runTask calls made
    poolCompleted, \* piscina.completed
    \* ---- Part VII
    ttPhase,       \* where the pipeline task of the captured event stands
    ttClock,       \* ms since the task started
    ttSleeps,      \* how many 800 ms waits the plugin's processEvent makes
    ttSlept,       \* how many of them are over
    ttEvent,       \* the properties of the event in the task
    ttWorkerBusy,  \* the worker executes the task
    ttFailures,    \* timeout failures reported
    ttCaptured,    \* posthog.capture calls made
    ttEvents,      \* server.db.fetchEvents(): the events ingested
    \* ---- Part VIII
    ieTask,        \* the ingestEvent task that runs: its event's uuid and its position
    ieResults,     \* what the ingestEvent tasks resolved to, and how
    ieStored,      \* the events the tasks have ingested
    \* ---- Part X
    lsConfigs,     \* server.pluginConfigs as loadSchedule finds it
    lsResolved,    \* the configs whose VM promise has settled
    lsSchedule,    \* server.pluginSchedule, and which call set it
    lsCalls,       \* the loadSchedule calls made: map iterated, position, local schedule
    \* ---- Part XI
    hsInput,       \* the arguments of handleTimestamp: data, now, sentAt
    hsThrowOnInvalid, \* luxon's Settings.throwOnInvalid
    hsResult,      \* what handleTimestamp returned
    \* ---- Part XII
    haEvent,       \* the arguments of handleIdentifyOrAlias: event, properties, distinctId
    haCalls,       \* the calls of alias it made: <<previousDistinctId, distinctId>>
    \* ---- Part XIII
    upEvent,       \* the $identify event processed: distinct_id, $set, $set_once
    \* ---- Part XIV
    pbEvents,      \* the events handed to processEvent: eventUuid, data.event
    pbAt,          \* where the processEvent call of each event stands
    pbHasPerson,   \* posthog_persondistinctid has a row for the distinct id
    pbMessages,    \* the messages sent with kafkaProducer.send: topic, key
    \* ---- Part XV
    trRow,         \* the row of posthog_team
    trEvents,      \* the events of the team: name, properties
    trCalls,       \* the captureEE call of each event: position, team object read
    \* ---- Part XVI
    gqStarted,     \* GraphileQueue.started
    gqPaused,      \* GraphileQueue.paused
    gqRunner,      \* GraphileQueue.runner: a runner, or 0 for null
    gqConsumerPool, \* GraphileQueue.consumerPool: a pool, or 0 for null
    gqRunners,     \* the runners run() has made: polling or stopped
    gqPools,       \* the pools createPool() has made: open or ended
    gqCalls,       \* the consumer operations called: operation, position in syncState
    gqLog,         \* the queue as each returned operation left it
    gqAwaited,     \* the caller awaits each operation before the next
    \* ---- Part XVII
    amActions,     \* the actions the ActionManager holds: team_id, steps
    amEvent,       \* the event handed to match
    amResult       \* what match returned

idVars == <<scenario, pending, history, tasks, persons, pdi, cohortpeople,
            nextPersonId, kafkaPerson, published, unhandled,
            injected, overlap, maxRuns, persons0>>

plVars == <<pluginRows, configRows, srvPlugins, srvConfigs, srvPerTeam, vms,
            errorLog, setups, run, pipelineRuns, downstream>>

lzVars == <<lzCounter, lzPromises, lzPhase, lzAttempts, lzLast, lzDisabled, lzErrors,
            lzReads>>

rlVars == <<rlOwner, rlPhase, rlResult, rlWeHaveTheLock, rlStopped, rlWorking, rlFailures>>

\* the variables of the parts after Part II
qcVars == <<qcBroker, qcSubmitted, qcPaused, qcInFlight, qcActive, qcQueue, qcRuns, qcPausedTimes>>

poolVars == <<poolRunning, poolQueue, poolSubmitted, poolCompleted>>

\* the variables of the parts after Part V
ttVars == <<ttPhase, ttClock, ttSleeps, ttSlept, ttEvent, ttWorkerBusy, ttFailures,
           ttCaptured, ttEvents>>

ieVars == <<ieTask, ieResults, ieStored>>

lsVars == <<lsConfigs, lsResolved, lsSchedule, lsCalls>>

hsVars == <<hsInput, hsThrowOnInvalid, hsResult>>

haVars == <<haEvent, haCalls>>

upVars == <<upEvent>>

pbVars == <<pbEvents, pbAt, pbHasPerson, pbMessages>>

trVars == <<trRow, trEvents, trCalls>>

gqVars == <<gqStarted, gqPaused, gqRunner, gqConsumerPool, gqRunners, gqPools, gqCalls,
           gqLog, gqAwaited>>

amVars == <<amActions, amEvent, amResult>>

tailVars == <<pbVars, trVars, gqVars, amVars>>

lateVars == <<poolVars, ttVars, ieVars, lsVars, hsVars, haVars, upVars, tailVars>>

extVars == <<lzVars, rlVars, qcVars, lateVars>>

vars == <<idVars, plVars, extVars>>

\* ---------------------------------------------------------------- helpers
EmptyProps == [k \in {} |-> 0]

\* { ...a, ...b }: b wins on shared keys
Spread(a, b) ==
    [k \in (DOMAIN a) \cup (DOMAIN b) |-> IF k \in DOMAIN b THEN b[k] ELSE a[k]]

PropMaps == UNION {[S -> Vals] : S \in SUBSET Keys}

NoPerson == [id |-> 0, created_at |-> 0, properties |-> EmptyProps,
             is_identified |-> FALSE]

Found(p) == p.id # 0

RECURSIVE AddAll(_, _)
AddAll(bag, seq) ==
    IF seq = <<>> THEN bag
    ELSE AddAll(bag (+) SetToBag({Head(seq)}), Tail(seq))

\* the task t is replaced by the tasks of seq
Replace(t, seq) == AddAll(tasks (-) SetToBag({t}), seq)

Running(fn, pc) == {t \in BagToSet(tasks) : t.fn = fn /\ t.pc = pc}

Quiescent == tasks = EmptyBag /\ pending = <<>>

\* ------------------------------------------------------------ db.ts (DB)
\* A row of posthog_person; the key of `persons` is its id.
PersonRow(createdAt, properties, isIdentified) ==
    [created_at |-> createdAt, properties |-> properties,
     is_identified |-> isIdentified]

\* The Person object the driver returns for row `id`.
PersonOf(id) ==
    [id |-> id, created_at |-> persons[id].created_at,
     properties |-> persons[id].properties,
     is_identified |-> persons[id].is_identified]

\* The rows of posthog_persondistinctid carry (distinct_id, person_id); the
\* store keeps (team_id, distinct_id) unique.  One team is modelled.
PdiRow(distinctId, personId) == [distinct_id |-> distinctId, person_id |-> personId]

DistinctIdsOf(personId) == {r.distinct_id : r \in {x \in pdi : x.person_id = personId}}

\* DB.fetchPerson: person JOIN persondistinctid on the distinct id; undefined
\* (NoPerson) when there is no row.
FetchPerson(distinctId) ==
    LET hit == {r \in pdi : r.distinct_id = distinctId /\ r.person_id \in DOMAIN persons}
    IN  IF hit = {} THEN NoPerson ELSE PersonOf((CHOOSE r \in hit : TRUE).person_id)

\* DateTime.utc(): a logical clock that ticks with every person INSERT.
Now == MaxTime + nextPersonId

\* DB.createPerson, the INSERT succeeding: the new row, the serial advanced,
\* and the message on KAFKA_PERSON.  Every caller passes properties {}.
CreatedPerson(isIdentified) ==
    [id |-> nextPersonId, created_at |-> Now, properties |-> EmptyProps,
     is_identified |-> isIdentified]

CreatePersonOk(isIdentified) ==
    /\ persons' = (nextPersonId :> PersonRow(Now, EmptyProps, isIdentified)) @@ persons
    /\ nextPersonId' = nextPersonId + 1
    /\ kafkaPerson' = (nextPersonId :> PersonRow(Now, EmptyProps, isIdentified)) @@ kafkaPerson
    /\ UNCHANGED injected

\* DB.createPerson, the INSERT refused by the store (the query rejects).
CanFail == injected < MaxDbFailures

CreatePersonFails ==
    /\ CanFail
    /\ injected' = injected + 1
    /\ UNCHANGED <<persons, nextPersonId, kafkaPerson>>

\* DB.addDistinctId: the INSERT is refused on the unique constraint
\* (team_id, distinct_id) and on the foreign key to posthog_person.
CanAddDistinctId(person, distinctId) ==
    /\ \A r \in pdi : r.distinct_id # distinctId
    /\ person.id \in DOMAIN persons

AddDistinctIdRows(person, distinctId) == pdi \cup {PdiRow(distinctId, person.id)}

\* DB.updatePerson: UPDATE posthog_person SET <the fields of update> WHERE
\* id = person.id, nothing else; then the message built from
\* {...person, ...update} goes to KAFKA_PERSON.
Updated(rec, update) ==
    [created_at |-> IF "created_at" \in DOMAIN update
                    THEN update.created_at ELSE rec.created_at,
     properties |-> IF "properties" \in DOMAIN update
                    THEN update.properties ELSE rec.properties,
     is_identified |-> IF "is_identified" \in DOMAIN update
                       THEN update.is_identified ELSE rec.is_identified]

UpdatePersonRows(person, update) ==
    IF person.id \in DOMAIN persons
    THEN [persons EXCEPT ![person.id] = Updated(persons[person.id], update)]
    ELSE persons

UpdatePerson(person, update) ==
    /\ persons' = UpdatePersonRows(person, update)
    /\ kafkaPerson' = (person.id :> Updated(person, update)) @@ kafkaPerson
    /\ UNCHANGED <<nextPersonId, injected>>

\* ------------------------------------------------------------------ tasks
Task == [fn |-> "", pc |-> "", d1 |-> "", d2 |-> "", p1 |-> NoPerson,
         p2 |-> NoPerson, retry |-> FALSE, cont |-> "", runs |-> 0, ev |-> 0,
         rows |-> <<>>]

\* alias(previousDistinctId, distinctId, teamId, retryIfFailed), at its first
\* query.  cont = "identify": handleIdentifyOrAlias awaits it for a $identify.
AliasTask(previous, distinctId, retryIfFailed, cont, runs) ==
    [Task EXCEPT !.fn = "alias", !.pc = "fetchOld", !.d1 = previous,
                 !.d2 = distinctId, !.retry = retryIfFailed, !.cont = cont,
                 !.runs = runs]

\* db.addDistinctId(person, distinctId) called and not awaited by `from`.
AddDistinctIdTask(person, distinctId, from) ==
    [Task EXCEPT !.fn = "addDistinctId", !.pc = "insert", !.p1 = person,
                 !.d1 = distinctId, !.cont = from]

SetIsIdentifiedTask(distinctId) ==
    [Task EXCEPT !.fn = "setIsIdentified", !.pc = "fetch", !.d1 = distinctId]

CaptureTask(ev, distinctId) ==
    [Task EXCEPT !.fn = "captureEE", !.pc = "teamQuery", !.d1 = distinctId, !.ev = ev]

\* mergePeople(mergeInto, [other]) up to its first await: the properties are
\* merged into the mergeInto object in memory.
MergeTask(mergeInto, other) ==
    [Task EXCEPT !.fn = "mergePeople", !.pc = "updatePerson",
                 !.p1 = [mergeInto EXCEPT !.properties =
                            Spread(other.properties, mergeInto.properties)],
                 !.p2 = other]

FirstSeen(mergeInto, other) ==
    IF other.created_at < mergeInto.created_at
    THEN other.created_at ELSE mergeInto.created_at

Max(a, b) == IF a > b THEN a ELSE b

\* what no step of a task changes
Fixed == UNCHANGED <<scenario, pending, history, overlap, persons0, plVars, extVars>>

PersonsUnchanged == UNCHANGED <<persons, nextPersonId, kafkaPerson, injected>>

\* ------------------------------------------- process-event.ts: processEvent
\* The ingress events of the model: a plain capture, a $identify carrying
\* $anon_distinct_id, a $create_alias carrying alias (field `other`).  They
\* carry no $set / $set_once and are no $snapshot.
EventInputs ==
    {[event |-> "capture", distinct_id |-> d, other |-> ""] : d \in DistinctIds}
    \cup {[event |-> n, distinct_id |-> "B", other |-> "A"] :
             n \in {"$identify", "$create_alias"}}

\* handleIdentifyOrAlias up to its first await: the tasks it leaves running.
HandleIdentifyOrAlias(e) ==
    IF e.event = "$create_alias"
    THEN <<AliasTask(e.other, e.distinct_id, TRUE, "", 1)>>
    ELSE IF e.event = "$identify"
    THEN IF e.other # ""
         THEN <<AliasTask(e.other, e.distinct_id, TRUE, "identify", 1)>>
         ELSE <<SetIsIdentifiedTask(e.distinct_id)>>
    ELSE <<>>

\* handleIdentifyOrAlias after `await this.alias(...)` of a $identify:
\* setIsIdentified is called and not awaited.
AfterAlias(t) ==
    IF t.cont = "identify" THEN <<SetIsIdentifiedTask(t.d2)>> ELSE <<>>

\* processEvent: handleIdentifyOrAlias is called without await, then captureEE
\* is awaited.  One worker takes the events in order: the next one starts when
\* the captureEE of the previous one has returned.
ProcessEvent ==
    /\ scenario = "events"
    /\ pending # <<>>
    /\ \A t \in BagToSet(tasks) : t.fn # "captureEE"
    /\ LET e == Head(pending)
           started == HandleIdentifyOrAlias(e)
       IN  /\ tasks' = AddAll(tasks, started \o
                            <<CaptureTask(Len(history) + 1, e.distinct_id)>>)
           /\ history' = Append(history, e)
           /\ maxRuns' = IF \E i \in DOMAIN started : started[i].fn = "alias"
                         THEN Max(maxRuns, 1) ELSE maxRuns
    /\ pending' = Tail(pending)
    /\ overlap' = (overlap \/ tasks # EmptyBag)
    /\ UNCHANGED <<scenario, persons0, persons, pdi, cohortpeople, nextPersonId,
                   kafkaPerson, published, unhandled, injected, plVars, extVars>>

\* --------------------------------------------------------------- alias
\* const oldPerson = await this.db.fetchPerson(teamId, previousDistinctId)
AliasFetchOld ==
    \E t \in Running("alias", "fetchOld") :
        /\ tasks' = Replace(t, <<[t EXCEPT !.p1 = FetchPerson(t.d1), !.pc = "fetchNew"]>>)
        /\ Fixed /\ PersonsUnchanged
        /\ UNCHANGED <<pdi, cohortpeople, published, unhandled, maxRuns>>

\* The four cases of alias after newPerson is fetched.  addDistinctId and
\* mergePeople are called without await: each is a task of its own and alias
\* returns at once.
AliasBranch(t, old, new) ==
    IF Found(old) /\ ~Found(new)
    THEN <<AddDistinctIdTask(old, t.d2, "alias")>> \o AfterAlias(t)
    ELSE IF ~Found(old) /\ Found(new)
    THEN <<AddDistinctIdTask(new, t.d1, "alias")>> \o AfterAlias(t)
    ELSE IF ~Found(old) /\ ~Found(new)
    THEN <<[t EXCEPT !.p2 = new, !.pc = "createPerson"]>>
    ELSE IF old.id # new.id
    THEN <<MergeTask(new, old)>> \o AfterAlias(t)
    ELSE AfterAlias(t)

\* const newPerson = await this.db.fetchPerson(teamId, distinctId)
AliasFetchNew ==
    \E t \in Running("alias", "fetchNew") :
        /\ tasks' = Replace(t, AliasBranch(t, t.p1, FetchPerson(t.d2)))
        /\ Fixed /\ PersonsUnchanged
        /\ UNCHANGED <<pdi, cohortpeople, published, unhandled, maxRuns>>

\* a retry that may itself retry: retryIfFailed passed on as true
AliasRetryAgain(t) == AliasTask(t.d1, t.d2, TRUE, "", t.runs + 1)

\* this.alias(previousDistinctId, distinctId, teamId, false) in a catch block
AliasRetry(t) == AliasTask(t.d1, t.d2, FALSE, "", t.runs + 1)

\* Both absent: await createPerson inside try; the two addDistinctId calls are
\* not awaited.  The catch block runs only when createPerson rejects.
AliasCreatePerson ==
    \E t \in Running("alias", "createPerson") :
        /\ \/ /\ CreatePersonOk(FALSE)
              /\ tasks' = Replace(t, <<AddDistinctIdTask(CreatedPerson(FALSE), t.d2, "alias"),
                                       AddDistinctIdTask(CreatedPerson(FALSE), t.d1, "alias")>>
                                     \o AfterAlias(t))
              /\ UNCHANGED maxRuns
           \/ /\ CreatePersonFails
              /\ tasks' = Replace(t, (IF t.retry THEN <<AliasRetry(t)>> ELSE <<>>)
                                     \o AfterAlias(t))
              /\ maxRuns' = IF t.retry THEN Max(maxRuns, AliasRetry(t).runs) ELSE maxRuns
        /\ Fixed
        /\ UNCHANGED <<pdi, cohortpeople, published, unhandled>>

\* db.addDistinctId running on its own: a refused INSERT rejects a promise
\* nobody awaits.
AddDistinctId ==
    \E t \in Running("addDistinctId", "insert") :
        /\ IF CanAddDistinctId(t.p1, t.d1)
           THEN pdi' = AddDistinctIdRows(t.p1, t.d1) /\ UNCHANGED unhandled
           ELSE unhandled' = unhandled \cup {t.cont} /\ UNCHANGED pdi
        /\ tasks' = Replace(t, <<>>)
        /\ Fixed /\ PersonsUnchanged
        /\ UNCHANGED <<cohortpeople, published, maxRuns>>

\* ----------------------------------------------------------- captureEE
\* SELECT * FROM posthog_team (the team-row bookkeeping that follows,
\* storeNamesAndProperties, touches no person table).
CaptureTeamQuery ==
    \E t \in Running("captureEE", "teamQuery") :
        /\ tasks' = Replace(t, <<[t EXCEPT !.pc = "pdiCount"]>>)
        /\ Fixed /\ PersonsUnchanged
        /\ UNCHANGED <<pdi, cohortpeople, published, unhandled, maxRuns>>

PdiCount(distinctId) == Cardinality({r \in pdi : r.distinct_id = distinctId})

\* SELECT COUNT(*) ... WHERE distinct_id; with a row present captureEE goes
\* straight to createEvent, which sends the event and returns.
CapturePdiCount ==
    \E t \in Running("captureEE", "pdiCount") :
        /\ IF PdiCount(t.d1) = 0
           THEN /\ tasks' = Replace(t, <<[t EXCEPT !.pc = "createPerson"]>>)
                /\ UNCHANGED published
           ELSE /\ tasks' = Replace(t, <<>>)
                /\ published' = published \cup {t.ev}
        /\ Fixed /\ PersonsUnchanged
        /\ UNCHANGED <<pdi, cohortpeople, unhandled, maxRuns>>

\* try { await createPerson(...); await addDistinctId(...) } catch {}
CaptureCreatePerson ==
    \E t \in Running("captureEE", "createPerson") :
        /\ \/ /\ CreatePersonOk(FALSE)
              /\ tasks' = Replace(t, <<[t EXCEPT !.p1 = CreatedPerson(FALSE),
                                                 !.pc = "addDistinctId"]>>)
              /\ UNCHANGED published
           \/ /\ CreatePersonFails
              /\ tasks' = Replace(t, <<>>)
              /\ published' = published \cup {t.ev}
        /\ Fixed
        /\ UNCHANGED <<pdi, cohortpeople, unhandled, maxRuns>>

\* the awaited addDistinctId: a refused INSERT is swallowed by catch {}
CaptureAddDistinctId ==
    \E t \in Running("captureEE", "addDistinctId") :
        /\ pdi' = IF CanAddDistinctId(t.p1, t.d1)
                  THEN AddDistinctIdRows(t.p1, t.d1) ELSE pdi
        /\ tasks' = Replace(t, <<>>)
        /\ published' = published \cup {t.ev}
        /\ Fixed /\ PersonsUnchanged
        /\ UNCHANGED <<cohortpeople, unhandled, maxRuns>>

\* ------------------------------------------------------ setIsIdentified
SetIsIdentifiedNext(t, found) ==
    IF Found(found) /\ ~found.is_identified
    THEN <<[t EXCEPT !.p1 = found, !.pc = "updatePerson"]>>
    ELSE <<>>

\* let personFound = await this.db.fetchPerson(teamId, distinctId)
SetIsIdentifiedFetch ==
    \E t \in Running("setIsIdentified", "fetch") :
        /\ tasks' = Replace(t, IF Found(FetchPerson(t.d1))
                               THEN SetIsIdentifiedNext(t, FetchPerson(t.d1))
                               ELSE <<[t EXCEPT !.pc = "createPerson"]>>)
        /\ Fixed /\ PersonsUnchanged
        /\ UNCHANGED <<pdi, cohortpeople, published, unhandled, maxRuns>>

\* await createPerson(..., is_identified = true); addDistinctId is not
\* awaited; personFound stays undefined, so no update follows.
SetIsIdentifiedCreatePerson ==
    \E t \in Running("setIsIdentified", "createPerson") :
        /\ \/ /\ CreatePersonOk(TRUE)
              /\ tasks' = Replace(t, <<AddDistinctIdTask(CreatedPerson(TRUE), t.d1,
                                                         "setIsIdentified")>>)
           \/ /\ CreatePersonFails
              /\ tasks' = Replace(t, <<[t EXCEPT !.pc = "refetch"]>>)
        /\ Fixed
        /\ UNCHANGED <<pdi, cohortpeople, published, unhandled, maxRuns>>

\* catch { personFound = await this.db.fetchPerson(teamId, distinctId) }
SetIsIdentifiedRefetch ==
    \E t \in Running("setIsIdentified", "refetch") :
        /\ tasks' = Replace(t, SetIsIdentifiedNext(t, FetchPerson(t.d1)))
        /\ Fixed /\ PersonsUnchanged
        /\ UNCHANGED <<pdi, cohortpeople, published, unhandled, maxRuns>>

\* await this.db.updatePerson(personFound, { is_identified: isIdentified })
SetIsIdentifiedUpdate ==
    \E t \in Running("setIsIdentified", "updatePerson") :
        /\ UpdatePerson(t.p1, [is_identified |-> TRUE])
        /\ tasks' = Replace(t, <<>>)
        /\ Fixed
        /\ UNCHANGED <<pdi, cohortpeople, published, unhandled, maxRuns>>

\* ---------------------------------------------------------- mergePeople
\* await this.db.updatePerson(mergeInto, { created_at: firstSeen })
MergeUpdatePerson ==
    \E t \in Running("mergePeople", "updatePerson") :
        /\ UpdatePerson(t.p1, [created_at |-> FirstSeen(t.p1, t.p2)])
        /\ tasks' = Replace(t, <<[t EXCEPT !.pc = "selectDistinctIds"]>>)
        /\ Fixed
        /\ UNCHANGED <<pdi, cohortpeople, published, unhandled, maxRuns>>

\* SELECT * FROM posthog_persondistinctid WHERE person_id = $1 AND team_id = $2
\* with $1 = otherPerson: the Person object, not its id.  The driver binds an
\* object as its JSON text, which is no integer: the store either refuses the
\* parameter (the query rejects, and with it mergePeople, which nobody
\* awaits) or finds no row whose person_id equals it, and then the loop over
\* updateDistinctId has nothing to move.
ObjectParam(obj) == [isInt |-> FALSE, json |-> obj]

PdiRowsWherePersonId(param) == {r \in pdi : param.isInt /\ r.person_id = param.int}

MergeSelectDistinctIds ==
    \E t \in Running("mergePeople", "selectDistinctIds") :
        /\ \/ /\ ~ObjectParam(t.p2).isInt
              /\ tasks' = Replace(t, <<>>)
              /\ unhandled' = unhandled \cup {"mergePeople"}
           \/ /\ PdiRowsWherePersonId(ObjectParam(t.p2)) = {}
              /\ tasks' = Replace(t, <<[t EXCEPT !.pc = "selectCohortPeople"]>>)
              /\ UNCHANGED unhandled
        /\ Fixed /\ PersonsUnchanged
        /\ UNCHANGED <<pdi, cohortpeople, published, maxRuns>>

RECURSIVE AscendingIds(_)
AscendingIds(S) ==
    IF S = {} THEN <<>>
    ELSE LET m == CHOOSE x \in S : \A y \in S : x <= y
         IN  <<m>> \o AscendingIds(S \ {m})

\* SELECT * FROM posthog_cohortpeople WHERE person_id = otherPerson.id
MergeSelectCohortPeople ==
    \E t \in Running("mergePeople", "selectCohortPeople") :
        /\ LET rows == AscendingIds({r.id : r \in {x \in cohortpeople : x.person_id = t.p2.id}})
           IN  tasks' = Replace(t, <<[t EXCEPT !.rows = rows,
                                       !.pc = IF rows = <<>> THEN "deletePdi"
                                              ELSE "updateCohortPeople"]>>)
        /\ Fixed /\ PersonsUnchanged
        /\ UNCHANGED <<pdi, cohortpeople, published, unhandled, maxRuns>>

\* UPDATE posthog_cohortpeople SET person_id = mergeInto.id WHERE id = row id
MergeUpdateCohortPeople ==
    \E t \in Running("mergePeople", "updateCohortPeople") :
        /\ IF t.p1.id \in DOMAIN persons
           THEN /\ cohortpeople' = {IF r.id = Head(t.rows)
                                    THEN [r EXCEPT !.person_id = t.p1.id] ELSE r :
                                        r \in cohortpeople}
                /\ tasks' = Replace(t, <<[t EXCEPT !.rows = Tail(t.rows),
                                            !.pc = IF Tail(t.rows) = <<>> THEN "deletePdi"
                                                   ELSE "updateCohortPeople"]>>)
                /\ UNCHANGED unhandled
           ELSE /\ tasks' = Replace(t, <<>>)
                /\ unhandled' = unhandled \cup {"mergePeople"}
                /\ UNCHANGED cohortpeople
        /\ Fixed /\ PersonsUnchanged
        /\ UNCHANGED <<pdi, published, maxRuns>>

\* DB.deletePerson, first query:
\* DELETE FROM posthog_persondistinctid WHERE person_id = otherPerson.id
MergeDeletePdi ==
    \E t \in Running("mergePeople", "deletePdi") :
        /\ pdi' = {r \in pdi : r.person_id # t.p2.id}
        /\ tasks' = Replace(t, <<[t EXCEPT !.pc = "deletePerson"]>>)
        /\ Fixed /\ PersonsUnchanged
        /\ UNCHANGED <<cohortpeople, published, unhandled, maxRuns>>

\* DB.deletePerson, second query: DELETE FROM posthog_person WHERE id; the
\* store refuses it while a row still refers to the person.
Referenced(personId) ==
    \/ \E r \in pdi : r.person_id = personId
    \/ \E r \in cohortpeople : r.person_id = personId

MergeDeletePerson ==
    \E t \in Running("mergePeople", "deletePerson") :
        /\ IF Referenced(t.p2.id)
           THEN unhandled' = unhandled \cup {"mergePeople"} /\ UNCHANGED persons
           ELSE /\ persons' = [i \in (DOMAIN persons) \ {t.p2.id} |-> persons[i]]
                /\ UNCHANGED unhandled
        /\ tasks' = Replace(t, <<>>)
        /\ Fixed
        /\ UNCHANGED <<pdi, cohortpeople, nextPersonId, kafkaPerson, injected,
                       published, maxRuns>>

\* ------------------------------------------------------- specification
EmptyDb ==
    /\ persons = <<>> /\ pdi = {} /\ cohortpeople = {} /\ nextPersonId = 1
    /\ kafkaPerson = <<>> /\ published = {} /\ unhandled = {} /\ injected = 0
    /\ overlap = FALSE /\ persons0 = <<>>

RECURSIVE SeqsUpTo(_, _)
SeqsUpTo(S, n) ==
    IF n = 0 THEN {<<>>}
    ELSE SeqsUpTo(S, n - 1) \cup
         {Append(q, x) : q \in {r \in SeqsUpTo(S, n - 1) : Len(r) = n - 1}, x \in S}

\* The database after plain captures of the distinct ids of `ids` were
\* processed to the end, one after the other, from an empty database: each
\* id on a person of its own.
RECURSIVE CapturedPersons(_, _)
CapturedPersons(ids, n) ==
    IF n = 0 THEN <<>>
    ELSE (n :> PersonRow(MaxTime + n, EmptyProps, FALSE)) @@ CapturedPersons(ids, n - 1)

CaptureEvent(d) == [event |-> "capture", distinct_id |-> d, other |-> ""]

\* a worker takes a batch of ingress events; earlier captures may have run
InitEvents ==
    /\ scenario = "events"
    /\ pending \in SeqsUpTo(EventInputs, MaxEvents) \ {<<>>}
    /\ \E ids \in {<<>>, <<"A">>, <<"B">>, <<"A", "B">>} :
          /\ history = [i \in DOMAIN ids |-> CaptureEvent(ids[i])]
          /\ persons = CapturedPersons(ids, Len(ids))
          /\ pdi = {PdiRow(ids[i], i) : i \in DOMAIN ids}
          /\ nextPersonId = Len(ids) + 1
          /\ published = DOMAIN ids
    /\ kafkaPerson = persons /\ persons0 = persons
    /\ tasks = EmptyBag /\ maxRuns = 0
    /\ cohortpeople = {} /\ unhandled = {} /\ injected = 0 /\ overlap = FALSE

\* two workers call alias("A", "B") at the same time on an empty database
InitRace ==
    /\ scenario = "race"
    /\ pending = <<>> /\ history = <<>>
    /\ tasks = AddAll(EmptyBag, <<AliasTask("A", "B", TRUE, "", 1),
                                  AliasTask("A", "B", TRUE, "", 1)>>)
    /\ maxRuns = 1
    /\ EmptyDb

\* alias("A", "B") with "A" on person 1 and "B" on person 2
InitMerge ==
    /\ scenario = "merge"
    /\ pending = <<>> /\ history = <<>>
    /\ tasks = AddAll(EmptyBag, <<AliasTask("A", "B", TRUE, "", 1)>>)
    /\ maxRuns = 1
    /\ \E pa \in PropMaps, pb \in PropMaps, ta \in Times, tb \in Times :
          persons = (1 :> PersonRow(ta, pa, FALSE)) @@ (2 :> PersonRow(tb, pb, FALSE))
    /\ persons0 = persons
    /\ pdi = {PdiRow("A", 1), PdiRow("B", 2)}
    /\ cohortpeople \in {{}, {[id |-> 1, person_id |-> 1]}}
    /\ nextPersonId = 3
    /\ kafkaPerson = persons
    /\ published = {} /\ unhandled = {} /\ injected = 0 /\ overlap = FALSE

NoRun == [list |-> <<>>, pos |-> 0, event |-> <<>>, invoked |-> <<>>, status |-> "idle"]

\* Part II at rest
PluginsIdle ==
    /\ pluginRows = <<>> /\ configRows = {} /\ srvPlugins = <<>> /\ srvConfigs = <<>>
    /\ srvPerTeam = <<>> /\ vms = <<>> /\ errorLog = {} /\ setups = 0
    /\ run = NoRun /\ pipelineRuns = 0 /\ downstream = {}

\* a LazyPluginVM as its constructor leaves it: initVm has run once
NoAttempt == [kind |-> "none", counter |-> 0]

LazyConstructed ==
    /\ lzCounter = 1 /\ lzPromises = <<"pending">> /\ lzPhase = "constructed"
    /\ lzAttempts = 0 /\ lzLast = NoAttempt /\ lzDisabled = FALSE /\ lzErrors = 0
    /\ lzReads = {}

NumReplicas == 2       \* replicas that run startRedlock on the one resource

Replicas == 1..NumReplicas

\* startRedlock has returned on every replica: setTimeout(tryToGetTheLock, 0)
RedlockStarted ==
    /\ rlOwner = 0
    /\ rlPhase = [r \in Replicas |-> "waiting"]
    /\ rlResult = [r \in Replicas |-> ""]
    /\ rlWeHaveTheLock = [r \in Replicas |-> FALSE]
    /\ rlStopped = [r \in Replicas |-> FALSE]
    /\ rlWorking = [r \in Replicas |-> FALSE]
    /\ rlFailures = 0

MaxMessages == 6       \* messages sent to the broker in one behaviour

Messages == 1..MaxMessages

\* the server has started, nothing was sent: the pool is empty and the
\* consumer polls
ConsumerStarted ==
    /\ qcBroker = <<>>
    /\ qcSubmitted = 0
    /\ qcPaused = FALSE
    /\ qcInFlight = 0
    /\ qcActive = {}
    /\ qcQueue = <<>>
    /\ qcRuns = [m \in Messages |-> 0]
    /\ qcPausedTimes = 0

workerThreads == 2
tasksPerWorker == 3

Threads == 1..workerThreads

\* setupPiscina(workerThreads, tasksPerWorker): no task was run
PoolIdle ==
    /\ poolRunning = [w \in Threads |-> {}]
    /\ poolQueue = <<>>
    /\ poolSubmitted = 0
    /\ poolCompleted = 0

\* posthog.capture('custom event', { name: 'haha', ... })
OriginalProperties == [name |-> "haha", passed |-> FALSE]

\* the server has started and no event was captured
TimeoutIdle ==
    /\ ttPhase = "idle"
    /\ ttClock = 0
    /\ ttSleeps = 0
    /\ ttSlept = 0
    /\ ttEvent = OriginalProperties
    /\ ttWorkerBusy = FALSE
    /\ ttFailures = 0
    /\ ttCaptured = 0
    /\ ttEvents = <<>>

NoTask == [uuid |-> <<>>, at |-> "none", error |-> ""]

\* no ingestEvent task was run
IngestIdle ==
    /\ ieTask = NoTask
    /\ ieResults = <<>>
    /\ ieStored = <<>>

\* { runEveryMinute: [], runEveryHour: [], runEveryDay: [] }
EmptySchedule == [runEveryMinute |-> <<>>, runEveryHour |-> <<>>, runEveryDay |-> <<>>]

\* server.pluginSchedule before any loadSchedule: null
NoSchedule == [null |-> TRUE, lists |-> EmptySchedule, by |-> 0]

\* no plugin config, loadSchedule was never called
ScheduleIdle ==
    /\ lsConfigs = <<>>
    /\ lsResolved = {}
    /\ lsSchedule = NoSchedule
    /\ lsCalls = <<>>

\* a DateTime: a time in ms, or an invalid DateTime; "none" where there is none
NoDateTime == [kind |-> "none", ms |-> 0]

\* an event without timestamp and offset, no sent_at; handleTimestamp not called
StampIdle ==
    /\ hsInput = [timestamp |-> <<>>, offset |-> 0, now |-> 0, sentAt |-> NoDateTime]
    /\ hsThrowOnInvalid = FALSE
    /\ hsResult = NoDateTime

\* properties[name] of a property the event does not carry
Undefined == "undefined"

\* a plain event; handleIdentifyOrAlias not called
NoAliasCalls ==
    /\ haEvent = [event |-> "capture", distinct_id |-> "A", alias |-> Undefined,
                  anon_distinct_id |-> Undefined, called |-> FALSE]
    /\ haCalls = <<>>

\* no $identify event with $set or $set_once
NoIdentify == upEvent = [distinct_id |-> "", set |-> EmptyProps, set_once |-> EmptyProps]

\* no event handed to processEvent
PublishIdle ==
    /\ pbEvents = <<>> /\ pbAt = <<>> /\ pbHasPerson = FALSE /\ pbMessages = <<>>

\* the row of a team that has ingested nothing
NewTeamRow ==
    [ingested_event |-> FALSE, event_names |-> <<>>, event_properties |-> <<>>,
     event_properties_numerical |-> <<>>]

\* no event of the team
TeamIdle == trRow = NewTeamRow /\ trEvents = <<>> /\ trCalls = <<>>

\* the GraphileQueue as its constructor leaves it
QueueConstructed ==
    /\ gqStarted = FALSE /\ gqPaused = FALSE /\ gqRunner = 0 /\ gqConsumerPool = 0
    /\ gqRunners = <<>> /\ gqPools = <<>>

\* no consumer operation called
QueueIdle == QueueConstructed /\ gqCalls = <<>> /\ gqLog = <<>> /\ gqAwaited = TRUE

\* match has not returned
NotMatched == [returned |-> FALSE, actions |-> {}]

\* no action, no event handed to match
MatchIdle ==
    /\ amActions = <<>>
    /\ amEvent = [team_id |-> 0, event |-> "", current_url |-> <<>>, elements |-> <<>>,
                  properties |-> EmptyProps]
    /\ amResult = NotMatched

\* the parts after Part XIII at rest
TailIdle == PublishIdle /\ TeamIdle /\ QueueIdle /\ MatchIdle

\* the parts after Part X at rest
LastIdle == StampIdle /\ NoAliasCalls /\ NoIdentify /\ TailIdle

\* the parts after Part V at rest
LateIdle == PoolIdle /\ TimeoutIdle /\ IngestIdle /\ ScheduleIdle /\ LastIdle

\* the parts after Part II at rest
ExtIdle == LazyConstructed /\ RedlockStarted /\ ConsumerStarted /\ LateIdle

InitIdentity == (InitEvents \/ InitRace \/ InitMerge) /\ PluginsIdle /\ ExtIdle

NextIdentity ==
    \/ ProcessEvent
    \/ AliasFetchOld \/ AliasFetchNew \/ AliasCreatePerson
    \/ AddDistinctId
    \/ CaptureTeamQuery \/ CapturePdiCount \/ CaptureCreatePerson
    \/ CaptureAddDistinctId
    \/ SetIsIdentifiedFetch \/ SetIsIdentifiedCreatePerson
    \/ SetIsIdentifiedRefetch \/ SetIsIdentifiedUpdate
    \/ MergeUpdatePerson \/ MergeSelectDistinctIds \/ MergeSelectCohortPeople
    \/ MergeUpdateCohortPeople \/ MergeDeletePdi \/ MergeDeletePerson

SpecIdentity == InitIdentity /\ [][NextIdentity]_vars

\* ------------------------------------------------------- claims, Part I
SeenIds ==
    {history[i].distinct_id : i \in DOMAIN history}
    \cup {history[i].other : i \in {j \in DOMAIN history : history[j].other # ""}}

\* the persons a distinct id is attached to
PersonsOfId(d) == {r.person_id : r \in {x \in pdi : x.distinct_id = d /\ x.person_id \in DOMAIN persons}}

NoStoreFailure == injected = 0

\* C1: with every event of the batch processed to the end (no task left) and
\* no INSERT refused by the store, every distinct id seen is attached to
\* exactly one person, and the two ids of every $identify / $create_alias are
\* attached to the same person.
C1_OnePersonPerCluster ==
    (scenario = "events" /\ Quiescent /\ NoStoreFailure) =>
        /\ \A d \in SeenIds : Cardinality(PersonsOfId(d)) = 1
        /\ \A i \in DOMAIN history :
              history[i].other # "" =>
                  PersonsOfId(history[i].distinct_id) = PersonsOfId(history[i].other)

\* C2: two workers ran alias("A", "B") from an empty database and every task
\* they started has ended: there is exactly one person, and its distinct ids
\* are exactly A and B.
C2_AliasRaceOnePerson ==
    (scenario = "race" /\ Quiescent /\ NoStoreFailure) =>
        /\ Cardinality(DOMAIN persons) = 1
        /\ \A p \in DOMAIN persons : DistinctIdsOf(p) = {"A", "B"}

IdentifyEvent == [event |-> "$identify", distinct_id |-> "B", other |-> "A"]

\* C3: capture(A) was processed to the end, then $identify(B, anon A), with
\* nothing left running: one person, holding A and B, is_identified.
C3_IdentifyMerges ==
    (/\ scenario = "events"
     /\ history = <<CaptureEvent("A"), IdentifyEvent>>
     /\ Quiescent /\ ~overlap /\ NoStoreFailure) =>
        /\ Cardinality(DOMAIN persons) = 1
        /\ \A p \in DOMAIN persons :
              DistinctIdsOf(p) = {"A", "B"} /\ persons[p].is_identified

\* C4: alias("A", "B") found person 1 for A and person 2 for B and everything
\* it started has ended: A is attached to person 2, no distinct id is lost,
\* and person 1 is gone.
C4_MergeMovesDistinctIds ==
    (scenario = "merge" /\ Quiescent) =>
        /\ DistinctIdsOf(2) = {"A", "B"}
        /\ {r.distinct_id : r \in pdi} = {"A", "B"}
        /\ 1 \notin DOMAIN persons

\* C5: no attach that alias started is refused by the store without alias
\* catching it (the rejection never goes unhandled).
C5_AliasCatchesViolation == "alias" \notin unhandled

\* C6: an alias call runs its body at most twice: the first run and at most
\* one retry, and the retry is started with retryIfFailed = false.
C6_AliasAtMostTwice ==
    /\ maxRuns <= 2
    /\ \A t \in BagToSet(tasks) :
          t.fn = "alias" => t.runs \in {1, 2} /\ (t.runs = 2 => ~t.retry)

\* the retry of an alias call whose createPerson was refused is running
C6_Witness ==
    /\ maxRuns = 2
    /\ \E t \in BagToSet(tasks) : t.fn = "alias" /\ t.runs = 2

\* C7: after the merge of person 1 into person 2, the stored properties of
\* person 2 are those of person 1 overlaid by its own, and its stored
\* created_at is the earlier of the two.
C7_MergeStoresProperties ==
    (scenario = "merge" /\ Quiescent) =>
        /\ 2 \in DOMAIN persons
        /\ persons[2].properties = Spread(persons0[1].properties, persons0[2].properties)
        /\ persons[2].created_at =
              IF persons0[1].created_at < persons0[2].created_at
              THEN persons0[1].created_at ELSE persons0[2].created_at

\* C38: after any sequence of capture, identify and alias operations,
\* concurrent or not, has completed, every person row has at least one
\* distinct_id attached: no person is left behind by a distinct-id insert
\* that lost a unique-constraint race.
C38_NoPersonWithoutDistinctId ==
    Quiescent => \A id \in DOMAIN persons : DistinctIdsOf(id) # {}

\* =================================================================== Part II
MaxOrder == 2          \* plugin configs take an order in 1..MaxOrder
MaxSetups == 3         \* setupPlugins calls in one behaviour
MaxPipelineRuns == 2   \* events run through the pipeline in one behaviour

TeamId == 2
PluginIds == {60, 61}
Orders == 1..MaxOrder

\* What the code of a plugin does: append its id to event.properties.plugins
\* and return the event; return null; throw; or fail to load: an index.js
\* that does not compile, an archive that is no archive.
Codes == {"append", "null", "throw", "brokenIndex", "brokenArchive"}

IdentityIdle ==
    /\ scenario = "plugins" /\ pending = <<>> /\ history = <<>> /\ tasks = EmptyBag
    /\ maxRuns = 0 /\ EmptyDb

ConfigRow(id, pluginId, order) ==
    [id |-> id, plugin_id |-> pluginId, team_id |-> TeamId, order |-> order,
     updated_at |-> 1]

\* the two tables setupPlugins reads; they stay as they are
InitPlugins ==
    /\ pluginRows \in [PluginIds -> [updated_at : {1}, code : Codes]]
    /\ \E o1 \in Orders, o2 \in Orders :
          configRows = {ConfigRow(39, 60, o1), ConfigRow(40, 61, o2)}
    /\ srvPlugins = <<>> /\ srvConfigs = <<>> /\ srvPerTeam = <<>> /\ vms = <<>>
    /\ errorLog = {} /\ setups = 0 /\ run = NoRun /\ pipelineRuns = 0 /\ downstream = {}
    /\ IdentityIdle /\ ExtIdle

\* the orders in which a query may return the rows of S
RowOrders(S) ==
    {q \in [1..Cardinality(S) -> S] : \A i, j \in 1..Cardinality(S) : q[i] = q[j] => i = j}

\* ------------------------------------------------------- createLazyPluginVM
\* The handle createLazyPluginVM returns: createPluginConfigVM has been
\* started and its promise is pending.
CreateLazyPluginVM(configId, code) == [config |-> configId, code |-> code, state |-> "pending"]

\* createPluginConfigVM rejects on an index.js that does not compile
Compiles(code) == code \in {"append", "null", "throw"}

\* the configs with an error recorded once the promise of h has settled
LazyVmErrors(h) == IF Compiles(h.code) THEN errorLog ELSE errorLog \cup {h.config}

\* what the promise of h settles to: .then((vm) => vm) or .catch(... null)
LazyVmSettled(h) == [h EXCEPT !.state = IF Compiles(h.code) THEN "vm" ELSE "null"]

VmResolve ==
    \E i \in DOMAIN vms :
        /\ vms[i].state = "pending"
        /\ vms' = [vms EXCEPT ![i] = LazyVmSettled(vms[i])]
        /\ errorLog' = LazyVmErrors(vms[i])
        /\ UNCHANGED <<pluginRows, configRows, srvPlugins, srvConfigs, srvPerTeam,
                       setups, run, pipelineRuns, downstream, idVars, extVars>>

\* --------------------------------------------------------------- setup.ts
UpdatedAtIn(map, id) == IF id \in DOMAIN map THEN map[id].updated_at ELSE 0

\* loadPluginsFromDB, the loop over the config rows: a row is kept when
\* server.plugins, the map of the previous load, holds its plugin.
KeptRows(rows) == SelectSeq(rows, LAMBDA r : r.plugin_id \in DOMAIN srvPlugins)

ConfigOf(row) ==
    [id |-> row.id, plugin_id |-> row.plugin_id, team_id |-> row.team_id,
     order |-> row.order, updated_at |-> row.updated_at,
     plugin |-> srvPlugins[row.plugin_id], vm |-> 0]

\* setupPlugins, the :TRICKY: test: the VM of the previous config is kept
ReusedVm(config, plugins) ==
    IF /\ config.id \in DOMAIN srvConfigs
       /\ config.updated_at = srvConfigs[config.id].updated_at
       /\ UpdatedAtIn(plugins, config.plugin_id) = UpdatedAtIn(srvPlugins, config.plugin_id)
    THEN srvConfigs[config.id].vm
    ELSE 0

\* loadPlugin(server, pluginConfig): an archive that is no archive is reported
\* with processError and the config keeps vm = null; any other plugin gets a
\* lazy VM handle.  acc holds the handles and the errors so far.
LoadPlugin(config, acc) ==
    IF config.plugin.code = "brokenArchive"
    THEN [vm |-> 0, vms |-> acc.vms, errors |-> acc.errors \cup {config.id}]
    ELSE [vm |-> Len(acc.vms) + 1,
          vms |-> Append(acc.vms, CreateLazyPluginVM(config.id, config.plugin.code)),
          errors |-> acc.errors]

\* setupPlugins, the loop over the configs read, in the order of the rows:
\* the VM of the previous load is kept or the plugin is loaded.
RECURSIVE LoadConfigs(_, _, _)
LoadConfigs(rows, plugins, acc) ==
    IF rows = <<>> THEN acc
    ELSE LET config == ConfigOf(Head(rows))
             reused == ReusedVm(config, plugins)
             loaded == IF reused = 0 THEN LoadPlugin(config, acc)
                       ELSE [vm |-> reused, vms |-> acc.vms, errors |-> acc.errors]
         IN  LoadConfigs(Tail(rows), plugins,
                         [configs |-> Append(acc.configs, [config EXCEPT !.vm = loaded.vm]),
                          vms |-> loaded.vms, errors |-> loaded.errors])

\* Array.prototype.sort((a, b) => a.order - b.order): stable, by order alone
RECURSIVE SortByOrder(_)
SortByOrder(configs) ==
    IF configs = <<>> THEN <<>>
    ELSE LET front == SortByOrder(SubSeq(configs, 1, Len(configs) - 1))
             c == configs[Len(configs)]
         IN  SelectSeq(front, LAMBDA x : x.order <= c.order) \o <<c>> \o
             SelectSeq(front, LAMBDA x : x.order > c.order)

ById(configs) == [id \in {configs[i].id : i \in DOMAIN configs} |->
                     (CHOOSE i \in DOMAIN configs : configs[i].id = id)]

SetupPlugins ==
    /\ setups < MaxSetups
    /\ \E rows \in RowOrders(configRows) :
          LET loaded == LoadConfigs(KeptRows(rows), pluginRows,
                                    [configs |-> <<>>, vms |-> vms, errors |-> errorLog])
              teamRows == SelectSeq(loaded.configs, LAMBDA c : c.team_id = TeamId)
          IN  /\ srvConfigs' = [id \in DOMAIN ById(loaded.configs) |->
                                   loaded.configs[ById(loaded.configs)[id]]]
              /\ vms' = loaded.vms
              /\ errorLog' = loaded.errors
              /\ srvPerTeam' = IF teamRows = <<>> THEN <<>>
                               ELSE (TeamId :> SortByOrder(teamRows))
    /\ srvPlugins' = pluginRows
    /\ setups' = setups + 1
    /\ UNCHANGED <<pluginRows, configRows, run, pipelineRuns, downstream, idVars, extVars>>

\* ------------------------------------------------------------ the pipeline
\* runPlugins takes the ordered list of the event's team as it is now
RunPlugins ==
    /\ run.status # "running"
    /\ pipelineRuns < MaxPipelineRuns
    /\ run' = [list |-> IF TeamId \in DOMAIN srvPerTeam THEN srvPerTeam[TeamId] ELSE <<>>,
               pos |-> 1, event |-> <<>>, invoked |-> <<>>, status |-> "running"]
    /\ pipelineRuns' = pipelineRuns + 1
    /\ UNCHANGED <<pluginRows, configRows, srvPlugins, srvConfigs, srvPerTeam, vms,
                   errorLog, setups, downstream, idVars, extVars>>

\* the VM of a config has settled: there is none, or its promise is resolved
VmSettled(config) == IF config.vm = 0 THEN TRUE ELSE vms[config.vm].state # "pending"

\* the processEvent the VM of a config exposes, "" when it exposes none
ProcessEventOf(config) ==
    IF config.vm # 0 /\ vms[config.vm].state = "vm" THEN vms[config.vm].code ELSE ""

\* a plugin returned null, and the pipeline goes on to the next config
ReturnedNullGoesOn(r, config) ==
    [r EXCEPT !.pos = r.pos + 1, !.invoked = Append(r.invoked, config.id)]

\* a plugin returned null: the pipeline ends and its result is null
ReturnedNull(r, config) ==
    [r EXCEPT !.status = "null", !.invoked = Append(r.invoked, config.id)]

\* one config of the list: wait for its VM, invoke processEvent if there is one
PipelineStep ==
    /\ run.status = "running"
    /\ run.pos <= Len(run.list)
    /\ LET config == run.list[run.pos]
           fn == ProcessEventOf(config)
       IN  /\ VmSettled(config)
           /\ run' = CASE fn = "" -> [run EXCEPT !.pos = run.pos + 1]
                       [] fn = "append" ->
                            [run EXCEPT !.pos = run.pos + 1,
                                        !.event = Append(run.event, config.plugin_id),
                                        !.invoked = Append(run.invoked, config.id)]
                       [] fn = "throw" ->
                            [run EXCEPT !.pos = run.pos + 1,
                                        !.invoked = Append(run.invoked, config.id)]
                       [] fn = "null" -> ReturnedNull(run, config)
           /\ errorLog' = IF fn = "throw" THEN errorLog \cup {config.id} ELSE errorLog
    /\ UNCHANGED <<pluginRows, configRows, srvPlugins, srvConfigs, srvPerTeam, vms,
                   setups, pipelineRuns, downstream, idVars, extVars>>

\* the list is done: runPlugins returns the event, which goes on to ingestion
PipelineReturn ==
    /\ run.status = "running"
    /\ run.pos > Len(run.list)
    /\ run' = [run EXCEPT !.status = "event"]
    /\ downstream' = downstream \cup {pipelineRuns}
    /\ UNCHANGED <<pluginRows, configRows, srvPlugins, srvConfigs, srvPerTeam, vms,
                   errorLog, setups, pipelineRuns, idVars, extVars>>

NextPlugins == SetupPlugins \/ VmResolve \/ RunPlugins \/ PipelineStep \/ PipelineReturn

SpecPlugins == InitPlugins /\ [][NextPlugins]_vars

\* ---------------------------------------------------------- claims, Part II
ConfigIn(list, id) == list[CHOOSE i \in DOMAIN list : list[i].id = id]

\* C8: on every event the configs of the team are invoked in strictly
\* ascending (order, id): by order, and by id among configs of equal order,
\* whatever order the store returned the rows in.
C8_InvokedAscending ==
    \A i, j \in DOMAIN run.invoked :
        i < j =>
            LET a == ConfigIn(run.list, run.invoked[i])
                b == ConfigIn(run.list, run.invoked[j])
            IN  a.order < b.order \/ (a.order = b.order /\ a.id < b.id)

\* C9: once a plugin's processEvent has returned null for an event, the
\* result of the pipeline is null, that plugin is the last one invoked for
\* the event, and the event is not passed on downstream.
C9_NullStopsPipeline ==
    \A i \in DOMAIN run.invoked :
        vms[ConfigIn(run.list, run.invoked[i]).vm].code = "null" =>
            /\ i = Len(run.invoked)
            /\ run.status = "null"
            /\ pipelineRuns \notin downstream

\* a first plugin returned null with a second one still to come
C9_Witness ==
    /\ run.status = "null"
    /\ run.invoked # <<>>
    /\ run.pos < Len(run.list)
    /\ ProcessEventOf(run.list[Len(run.list)]) # ""

CannotLoad(code) == code \in {"brokenIndex", "brokenArchive"}

\* C10: once setupPlugins has run and the VM promises have settled, every
\* config whose plugin cannot be loaded has a VM handle that is null or has
\* resolved to null and an error recorded against it, and a pipeline run over
\* such configs alone has returned the event as it came in.
C10_LoadFailureHandled ==
    (setups >= 1 /\ \A i \in DOMAIN vms : vms[i].state # "pending") =>
        /\ \A row \in configRows :
              CannotLoad(pluginRows[row.plugin_id].code) =>
                  /\ row.id \in DOMAIN srvConfigs
                  /\ ProcessEventOf(srvConfigs[row.id]) = ""
                  /\ row.id \in errorLog
        /\ (run.status # "idle" /\ \A p \in PluginIds : CannotLoad(pluginRows[p].code)) =>
              (run.status \in {"running", "event"} /\ run.event = <<>>)

\* ================================================================== Part III
\* lazy.ts: one LazyPluginVM.  loadPlugin calls initialize once, or
\* failInitialization; the retry timer calls initVm and initialize again.
MAX_SETUP_RETRIES == 10

MaxReaders == 2        \* reads of the handle in one behaviour

\* what createPluginConfigVM and the steps after it do in one attempt: the VM
\* is built, a RetryError is thrown, or any other error is thrown
Outcomes == {"ok", "retry", "error"}

CurrentPromise == Len(lzPromises)

\* resolve(value) of the promise initVm created last
Resolve(value) == [lzPromises EXCEPT ![CurrentPromise] = value]

\* the test of the catch block taken one attempt too far
RetriesOnceMore(outcome) == outcome = "retry" /\ lzCounter <= MAX_SETUP_RETRIES

\* the test of the catch block with isRetryError left out
RetriesAnyError(outcome) == outcome # "ok" /\ lzCounter < MAX_SETUP_RETRIES

\* isRetryError && this.totalInitAttemptsCounter < MAX_SETUP_RETRIES
Retries(outcome) == outcome = "retry" /\ lzCounter < MAX_SETUP_RETRIES

PluginsAtRest == UNCHANGED <<idVars, plVars, rlVars, qcVars, lateVars>>

\* initialize(hub, pluginConfig, indexJs) called by loadPlugin
LazyInitialize ==
    /\ lzPhase = "constructed"
    /\ lzPhase' = "initializing"
    /\ lzAttempts' = lzAttempts + 1
    /\ UNCHANGED <<lzCounter, lzPromises, lzLast, lzDisabled, lzErrors, lzReads>>
    /\ PluginsAtRest

\* failInitialization() called by loadPlugin instead: resolve(null)
LazyFailInitialization ==
    /\ lzPhase = "constructed"
    /\ lzPhase' = "failed"
    /\ lzPromises' = Resolve("null")
    /\ UNCHANGED <<lzCounter, lzAttempts, lzLast, lzDisabled, lzErrors, lzReads>>
    /\ PluginsAtRest

\* the try / catch of initialize once the attempt has ended
LazyAttemptEnds ==
    /\ lzPhase = "initializing"
    /\ \E outcome \in Outcomes :
          /\ lzLast' = [kind |-> outcome, counter |-> lzCounter]
          /\ IF outcome = "ok"
             THEN /\ lzPromises' = Resolve("vm")
                  /\ lzPhase' = "ready"
                  /\ UNCHANGED <<lzDisabled, lzErrors>>
             ELSE IF Retries(outcome)
             THEN /\ lzPromises' = Resolve("null")
                  /\ lzPhase' = "retryTimer"
                  /\ UNCHANGED <<lzDisabled, lzErrors>>
             ELSE /\ lzPromises' = Resolve("null")
                  /\ lzPhase' = "disabled"
                  /\ lzDisabled' = TRUE
                  /\ lzErrors' = lzErrors + 1
    /\ UNCHANGED <<lzCounter, lzAttempts, lzReads>>
    /\ PluginsAtRest

\* the retry timer fires and its callback starts nothing
LazyRetryTimerIdle ==
    /\ lzPhase = "retryTimer"
    /\ lzPhase' = "idle"
    /\ UNCHANGED <<lzCounter, lzPromises, lzAttempts, lzLast, lzDisabled, lzErrors, lzReads>>
    /\ PluginsAtRest

\* the retry timer fires: this.initVm(); void this.initialize?.(...)
LazyRetryTimer ==
    /\ lzPhase = "retryTimer"
    /\ lzCounter' = lzCounter + 1
    /\ lzPromises' = Append(lzPromises, "pending")
    /\ lzAttempts' = lzAttempts + 1
    /\ lzPhase' = "initializing"
    /\ UNCHANGED <<lzLast, lzDisabled, lzErrors, lzReads>>
    /\ PluginsAtRest

\* clearRetryTimeoutIfExists() while the timer is pending
LazyClearRetryTimeout ==
    /\ lzPhase = "retryTimer"
    /\ lzPhase' = "cleared"
    /\ UNCHANGED <<lzCounter, lzPromises, lzAttempts, lzLast, lzDisabled, lzErrors, lzReads>>
    /\ PluginsAtRest

\* a getter is called: await this.resolveInternalVm, the promise of now
LazyGet ==
    /\ Cardinality(lzReads) < MaxReaders
    /\ lzReads' = lzReads \cup {[promise |-> CurrentPromise, got |-> "waiting",
                               phase |-> ""]}
    /\ UNCHANGED <<lzCounter, lzPromises, lzPhase, lzAttempts, lzLast, lzDisabled, lzErrors>>
    /\ PluginsAtRest

\* the promise a reader awaits has settled: the reader goes on with its value
LazyGot ==
    /\ \E r \in lzReads :
          /\ r.got = "waiting"
          /\ lzPromises[r.promise] # "pending"
          /\ lzReads' = (lzReads \ {r}) \cup
                            {[r EXCEPT !.got = lzPromises[r.promise], !.phase = lzPhase]}
    /\ UNCHANGED <<lzCounter, lzPromises, lzPhase, lzAttempts, lzLast, lzDisabled, lzErrors>>
    /\ PluginsAtRest

InitLazy == LazyConstructed /\ IdentityIdle /\ PluginsIdle /\ RedlockStarted /\ ConsumerStarted /\ LateIdle

NextLazy ==
    \/ LazyInitialize \/ LazyFailInitialization \/ LazyAttemptEnds \/ LazyRetryTimer
    \/ LazyClearRetryTimeout \/ LazyGet \/ LazyGot

SpecLazy == InitLazy /\ [][NextLazy]_vars

\* timers fire and attempts end
SpecLazyFair == SpecLazy /\ WF_vars(LazyAttemptEnds) /\ WF_vars(LazyRetryTimer)

\* --------------------------------------------------------- claims, Part III
\* C11: createPluginConfigVM is called at most MAX_SETUP_RETRIES = 10 times
\* for one LazyPluginVM, however many of the attempts throw a RetryError.
C11_AtMostTenAttempts ==
    lzAttempts <= MAX_SETUP_RETRIES /\ lzCounter <= MAX_SETUP_RETRIES

\* the tenth attempt threw a RetryError too and the plugin was given up
C11_Witness ==
    lzAttempts = MAX_SETUP_RETRIES /\ lzLast.kind = "retry" /\ lzPhase = "disabled"

C13_NullOnlyWhenPermanent ==
    /\ \A r \in lzReads : r.got = "null" => r.phase \in {"disabled", "failed"}
    /\ \A i, j \in DOMAIN lzPromises :
          (i < j /\ lzPromises[i] = "null") => lzPromises[j] # "vm"

LazyFinal ==
    \/ lzPromises[CurrentPromise] = "vm"
    \/ lzPromises[CurrentPromise] = "null" /\ lzDisabled

MaxRedisFailures == 1  \* Redis calls that fail though the lock is not taken

RedlockAtRest == UNCHANGED <<idVars, plVars, lzVars, qcVars, lateVars>>

CanFailRedis == rlFailures < MaxRedisFailures

\* tryToGetTheLock, the timer firing: lock = await redlock.lock(resource, lockTTL)
\* with retryCount 0; Redis grants the key if it is free.
RlTryToGetTheLock(r) ==
    /\ rlPhase[r] = "waiting"
    /\ rlPhase' = [rlPhase EXCEPT ![r] = "lockReply"]
    /\ \/ /\ rlOwner = 0
          /\ rlOwner' = r
          /\ rlResult' = [rlResult EXCEPT ![r] = "ok"]
          /\ UNCHANGED rlFailures
       \/ /\ rlOwner # 0
          /\ rlResult' = [rlResult EXCEPT ![r] = "LockError"]
          /\ UNCHANGED <<rlOwner, rlFailures>>
       \/ /\ rlOwner = 0 /\ CanFailRedis
          /\ rlFailures' = rlFailures + 1
          /\ rlResult' = [rlResult EXCEPT ![r] = "LockError"]
          /\ UNCHANGED rlOwner
    /\ UNCHANGED <<rlWeHaveTheLock, rlStopped, rlWorking>>
    /\ RedlockAtRest

\* a failed acquisition that schedules nothing
AfterLockErrorGivesUp == "idle"

\* catch of tryToGetTheLock on a LockError: setTimeout(tryToGetTheLock, retryDelay)
AfterLockError == "waiting"

\* tryToGetTheLock after the await: the lock is ours, the extend timer is set
\* and onLock is awaited; or the catch block.
RlLockReply(r) ==
    /\ rlPhase[r] = "lockReply"
    /\ rlResult' = [rlResult EXCEPT ![r] = ""]
    /\ \/ /\ rlResult[r] = "ok"
          /\ rlPhase' = [rlPhase EXCEPT ![r] = "holding"]
          /\ \/ /\ rlWeHaveTheLock' = [rlWeHaveTheLock EXCEPT ![r] = TRUE]
                /\ rlWorking' = [rlWorking EXCEPT ![r] = TRUE]
             \/ \* onLock throws: the catch block with an error that is no LockError
                /\ rlWeHaveTheLock' = [rlWeHaveTheLock EXCEPT ![r] = rlStopped[r]]
                /\ UNCHANGED rlWorking
       \/ /\ rlResult[r] = "LockError"
          /\ IF rlStopped[r]
             THEN /\ rlPhase' = [rlPhase EXCEPT ![r] = "idle"]
                  /\ UNCHANGED rlWeHaveTheLock
             ELSE /\ rlPhase' = [rlPhase EXCEPT ![r] = AfterLockError]
                  /\ rlWeHaveTheLock' = [rlWeHaveTheLock EXCEPT ![r] = FALSE]
          /\ UNCHANGED rlWorking
    /\ UNCHANGED <<rlOwner, rlStopped, rlFailures>>
    /\ RedlockAtRest

\* extendLock, the timer firing: return if stopped, else
\* lock = await lock.extend(lockTTL); Redis extends the key if it is still ours.
RlExtendLock(r) ==
    /\ rlPhase[r] = "holding"
    /\ IF rlStopped[r]
       THEN /\ rlPhase' = [rlPhase EXCEPT ![r] = "idle"]
            /\ UNCHANGED <<rlResult, rlFailures>>
       ELSE /\ rlPhase' = [rlPhase EXCEPT ![r] = "extendReply"]
            /\ \/ /\ rlOwner = r
                  /\ rlResult' = [rlResult EXCEPT ![r] = "ok"]
                  /\ UNCHANGED rlFailures
               \/ /\ rlOwner # r
                  /\ rlResult' = [rlResult EXCEPT ![r] = "LockError"]
                  /\ UNCHANGED rlFailures
               \/ /\ rlOwner = r /\ CanFailRedis
                  /\ rlFailures' = rlFailures + 1
                  /\ rlResult' = [rlResult EXCEPT ![r] = "LockError"]
    /\ UNCHANGED <<rlOwner, rlWeHaveTheLock, rlStopped, rlWorking>>
    /\ RedlockAtRest

\* extendLock after the await: the next extension is scheduled, or the catch
\* block: weHaveTheLock = false; setTimeout(tryToGetTheLock, 0).  The catch
\* block does not call onUnlock: the work onLock started goes on.
RlExtendReply(r) ==
    /\ rlPhase[r] = "extendReply"
    /\ rlResult' = [rlResult EXCEPT ![r] = ""]
    /\ IF rlResult[r] = "ok"
       THEN /\ rlPhase' = [rlPhase EXCEPT ![r] = "holding"]
            /\ UNCHANGED <<rlWeHaveTheLock, rlWorking>>
       ELSE /\ rlPhase' = [rlPhase EXCEPT ![r] = "waiting"]
            /\ rlWeHaveTheLock' = [rlWeHaveTheLock EXCEPT ![r] = FALSE]
            /\ UNCHANGED rlWorking
    /\ UNCHANGED <<rlOwner, rlStopped, rlFailures>>
    /\ RedlockAtRest

\* the replica keeps its key alive: its extend timer is pending or its last call succeeded
Extending(r) ==
    \/ rlPhase[r] = "holding" /\ ~rlStopped[r]
    \/ rlPhase[r] \in {"lockReply", "extendReply"} /\ rlResult[r] = "ok"

\* the key reaches its TTL without having been extended
RlExpire ==
    /\ rlOwner # 0
    /\ ~Extending(rlOwner)
    /\ rlOwner' = 0
    /\ UNCHANGED <<rlPhase, rlResult, rlWeHaveTheLock, rlStopped, rlWorking, rlFailures>>
    /\ RedlockAtRest

\* the function startRedlock returns: stopped = true, clearTimeout, unlock
\* (which releases the key only if it is still the one of `lock`), onUnlock
RlStop(r) ==
    /\ ~rlStopped[r]
    /\ rlStopped' = [rlStopped EXCEPT ![r] = TRUE]
    /\ rlPhase' = [rlPhase EXCEPT ![r] = IF rlPhase[r] \in {"waiting", "holding"}
                                          THEN "idle" ELSE rlPhase[r]]
    /\ rlOwner' = IF rlOwner = r /\ rlPhase[r] # "lockReply" THEN 0 ELSE rlOwner
    /\ rlWorking' = [rlWorking EXCEPT ![r] = FALSE]
    /\ UNCHANGED <<rlResult, rlWeHaveTheLock, rlFailures>>
    /\ RedlockAtRest

InitRedlock == RedlockStarted /\ LazyConstructed /\ IdentityIdle /\ PluginsIdle /\ ConsumerStarted /\ LateIdle

NextRedlock ==
    \/ \E r \in Replicas : RlTryToGetTheLock(r)
    \/ \E r \in Replicas : RlLockReply(r)
    \/ \E r \in Replicas : RlExtendLock(r)
    \/ \E r \in Replicas : RlExtendReply(r)
    \/ \E r \in Replicas : RlStop(r)
    \/ RlExpire

SpecRedlock == InitRedlock /\ [][NextRedlock]_vars

\* timers fire, Redis answers, keys expire
SpecRedlockFair ==
    /\ SpecRedlock
    /\ \A r \in Replicas :
          /\ WF_vars(RlTryToGetTheLock(r)) /\ WF_vars(RlLockReply(r))
          /\ WF_vars(RlExtendLock(r)) /\ WF_vars(RlExtendReply(r))
    /\ WF_vars(RlExpire)

\* ------------------------------------------------------- claims of Part IV
\* the replicas that run the scheduled work onLock started
Workers == {r \in Replicas : rlWorking[r]}

\* C15: at every moment at most one replica runs the scheduled work that its
\* onLock callback started and that has not been stopped.
C15_OneReplicaWorks == Cardinality(Workers) <= 1

\* C16: a replica whose extension failed has stopped its scheduled work before
\* it tries to re-acquire: a replica that waits for the lock or asks for it
\* runs no scheduled work.
C16_DemotesOnExtensionFailure ==
    \A r \in Replicas : rlPhase[r] \in {"waiting", "lockReply"} => ~rlWorking[r]

\* an acquisition attempt of replica r is pending: its timer, its call to
\* Redis, or the handler of a failed extension that schedules it
AttemptPending(r) ==
    \/ rlPhase[r] \in {"waiting", "lockReply"}
    \/ rlPhase[r] = "extendReply" /\ rlResult[r] = "LockError"

C37_StopIsFinal ==
    [][\A r \in Replicas :
          rlStopped[r] =>
              /\ rlWorking'[r] => rlWorking[r]
              /\ rlPhase'[r] \in {"lockReply", "extendReply"} => rlPhase'[r] = rlPhase[r]
              /\ rlPhase'[r] = "idle" => rlOwner' # r]_vars

\* ==================================================================== Part V
\* The queue consumer and the worker pool, as the test 'pauses the queue if
\* too many tasks' drives them.  The pool is the one of the worker tests: it
\* runs WORKER_CONCURRENCY * TASKS_PER_WORKER tasks at once and queues the
\* rest.  The consumer's admission and its pausing are not among the sources;
\* they follow section 4.1: a live count inFlight, pause when it reaches
\* pauseAt, resume when it has dropped to resumeAt.
WORKER_CONCURRENCY == 2
TASKS_PER_WORKER == 2

\* C = worker_threads * tasks_per_worker
PoolCapacity == WORKER_CONCURRENCY * TASKS_PER_WORKER

\* a consumer that pauses one task late
PauseAtAbove == PoolCapacity + 1

pauseAt == PoolCapacity

\* a consumer that does not resume
ResumeAtNever == 0 - PoolCapacity

resumeAt == PoolCapacity \div 2

ConsumerAtRest == UNCHANGED <<idVars, plVars, lzVars, rlVars, lateVars>>

\* client.sendTask in a loop: a burst of messages reaches the broker
Submit(n) ==
    /\ qcSubmitted + n <= MaxMessages
    /\ qcBroker' = qcBroker \o [i \in 1..n |-> qcSubmitted + i]
    /\ qcSubmitted' = qcSubmitted + n
    /\ UNCHANGED <<qcPaused, qcInFlight, qcActive, qcQueue, qcRuns, qcPausedTimes>>
    /\ ConsumerAtRest

\* a poll that leaves the message in the broker
AfterPollRedelivers(broker) == broker

\* the message the consumer accepted is gone from the broker
AfterPoll(broker) == Tail(broker)

\* the consumer can take the next message
CanPoll == ~qcPaused /\ qcBroker # <<>>

\* the consumer accepts one message and submits its pipeline task to the
\* pool, which runs it if a slot is free and queues it otherwise; the
\* consumer pauses when inFlight >= pauseAt
Poll ==
    /\ CanPoll
    /\ qcBroker' = AfterPoll(qcBroker)
    /\ qcInFlight' = qcInFlight + 1
    /\ IF Cardinality(qcActive) < PoolCapacity
       THEN qcActive' = qcActive \cup {Head(qcBroker)} /\ UNCHANGED qcQueue
       ELSE qcQueue' = Append(qcQueue, Head(qcBroker)) /\ UNCHANGED qcActive
    /\ qcPaused' = (qcInFlight' >= pauseAt)
    /\ qcPausedTimes' = IF qcPaused' THEN qcPausedTimes + 1 ELSE qcPausedTimes
    /\ UNCHANGED <<qcSubmitted, qcRuns>>
    /\ ConsumerAtRest

\* the pipeline task of message m resolves: the pool starts the next queued
\* task, the consumer counts down and resumes when inFlight has dropped to
\* resumeAt
Complete(m) ==
    /\ m \in qcActive
    /\ qcRuns' = [qcRuns EXCEPT ![m] = @ + 1]
    /\ IF qcQueue = <<>>
       THEN qcActive' = qcActive \ {m} /\ UNCHANGED qcQueue
       ELSE qcActive' = (qcActive \ {m}) \cup {Head(qcQueue)} /\ qcQueue' = Tail(qcQueue)
    /\ qcInFlight' = qcInFlight - 1
    /\ qcPaused' = IF qcInFlight' <= resumeAt THEN FALSE ELSE qcPaused
    /\ UNCHANGED <<qcBroker, qcSubmitted, qcPausedTimes>>
    /\ ConsumerAtRest

\* a task of the 1-s-per-event plugin resolves: every poll that could be made
\* has been made before
CompleteSlow(m) == ~CanPoll /\ Complete(m)

InitConsumer == ConsumerStarted /\ LazyConstructed /\ RedlockStarted /\ IdentityIdle /\ PluginsIdle /\ LateIdle

NextConsumer ==
    \/ \E n \in 1..MaxMessages : Submit(n)
    \/ Poll
    \/ \E m \in Messages : Complete(m)

SpecConsumer == InitConsumer /\ [][NextConsumer]_vars

NextConsumerSlow ==
    \/ \E n \in 1..MaxMessages : Submit(n)
    \/ Poll
    \/ \E m \in Messages : CompleteSlow(m)

\* the test's setting: tasks take a second, polls are made at once
SpecConsumerSlow ==
    /\ InitConsumer /\ [][NextConsumerSlow]_vars
    /\ WF_vars(Poll) /\ WF_vars(\E m \in Messages : CompleteSlow(m))

\* ------------------------------------------------------- claims of Part V
\* the pipeline tasks the consumer has admitted and that have not resolved
Unresolved == Cardinality(qcActive) + Len(qcQueue)

Drained == qcBroker = <<>> /\ Unresolved = 0

Accepted == {m \in 1..qcSubmitted : \A i \in 1..Len(qcBroker) : qcBroker[i] # m}

\* the messages whose task waits or runs in the pool
InPool == qcActive \cup {qcQueue[i] : i \in 1..Len(qcQueue)}

MaxTasks == 8          \* runTask calls in one behaviour

\* the parts before Part VI at rest
EarlyAtRest == UNCHANGED <<idVars, plVars, lzVars, rlVars, qcVars>>

PoolAtRest == EarlyAtRest /\ UNCHANGED <<ttVars, ieVars, lsVars, hsVars, haVars, upVars, tailVars>>

\* a worker that takes one task at a time
HasFreeSlotOneTask(w) == Cardinality(poolRunning[w]) < 1

\* the worker executes fewer tasks than tasksPerWorker
HasFreeSlot(w) == Cardinality(poolRunning[w]) < tasksPerWorker

\* the tasks that execute
Executing == UNION {poolRunning[w] : w \in Threads}

\* piscina.runTask: the task goes to a worker with a free slot, and to the
\* queue if there is none
PoolRunTask ==
    /\ poolSubmitted < MaxTasks
    /\ poolSubmitted' = poolSubmitted + 1
    /\ IF \E w \in Threads : HasFreeSlot(w)
       THEN /\ \E w \in Threads :
                 /\ HasFreeSlot(w)
                 /\ poolRunning' = [poolRunning EXCEPT ![w] = @ \cup {poolSubmitted + 1}]
            /\ UNCHANGED poolQueue
       ELSE /\ poolQueue' = Append(poolQueue, poolSubmitted + 1)
            /\ UNCHANGED poolRunning
    /\ UNCHANGED poolCompleted
    /\ PoolAtRest

\* a task ends on its worker, which pulls the next task from the queue
PoolTaskEnds(w, t) ==
    /\ t \in poolRunning[w]
    /\ poolCompleted' = poolCompleted + 1
    /\ IF poolQueue = <<>>
       THEN /\ poolRunning' = [poolRunning EXCEPT ![w] = @ \ {t}]
            /\ UNCHANGED poolQueue
       ELSE /\ poolRunning' = [poolRunning EXCEPT ![w] = (@ \ {t}) \cup {Head(poolQueue)}]
            /\ poolQueue' = Tail(poolQueue)
    /\ UNCHANGED poolSubmitted
    /\ PoolAtRest

InitPool ==
    /\ PoolIdle /\ TimeoutIdle /\ IngestIdle /\ ScheduleIdle /\ LastIdle
    /\ IdentityIdle /\ PluginsIdle /\ LazyConstructed /\ RedlockStarted /\ ConsumerStarted

NextPool ==
    \/ PoolRunTask
    \/ \E w \in Threads : \E t \in 1..MaxTasks : PoolTaskEnds(w, t)

SpecPool == InitPool /\ [][NextPool]_vars

\* every task that executes ends
SpecPoolFair == SpecPool /\ WF_vars(\E w \in Threads : \E t \in 1..MaxTasks : PoolTaskEnds(w, t))

\* ------------------------------------------------------ claims of Part VI
QueuedTasks == {poolQueue[i] : i \in 1..Len(poolQueue)}

PoolSlots == workerThreads * tasksPerWorker

\* the tasks submitted and not ended
Outstanding == poolSubmitted - poolCompleted

\* C21: at most workerThreads * tasksPerWorker tasks execute at once; a task
\* waits in the queue only while all slots are busy, so the queue size is
\* max(0, S - workerThreads * tasksPerWorker) for S outstanding tasks; and
\* every queued task is eventually executed.
C21_PoolDispatch ==
    /\ [](Cardinality(Executing) <= PoolSlots)
    /\ [](poolQueue # <<>> => Cardinality(Executing) = PoolSlots)
    /\ [](Len(poolQueue) = IF Outstanding > PoolSlots THEN Outstanding - PoolSlots ELSE 0)
    /\ \A t \in 1..MaxTasks : (t \in QueuedTasks) ~> (t \in Executing)

\* all tasks were submitted at once
C21_Witness ==
    /\ poolSubmitted = MaxTasks /\ poolCompleted = 0
    /\ Len(poolQueue) = MaxTasks - PoolSlots
    /\ Cardinality(Executing) = PoolSlots

\* ================================================================== Part VII
\* The pipeline task of one captured event under TASK_TIMEOUT, as the test
\* 'e2e postgres ingestion timeout' sets it up: the plugin's processEvent
\* waits 800 ms a number of times, then replaces the event's properties.
\* Time moves from one timer to the next.
TASK_TIMEOUT == 2
SleepMs == 800

MaxSleeps == 5         \* waits of 800 ms in the plugin's processEvent
MaxCaptures == 2       \* events captured in one behaviour

TimeoutAtRest == EarlyAtRest /\ UNCHANGED <<poolVars, ieVars, lsVars, hsVars, haVars, upVars, tailVars>>

\* a deadline of TASK_TIMEOUT taken in units of 1000 s
DeadlineLate == TASK_TIMEOUT * 1000 * 1000

\* TASK_TIMEOUT in ms
Deadline == TASK_TIMEOUT * 1000

\* event.properties = { passed: true }
PluginProperties == [name |-> "", passed |-> TRUE]

\* posthog.capture: the event's pipeline task starts on a worker
TtCapture(n) ==
    /\ ttPhase = "idle"
    /\ ttCaptured < MaxCaptures
    /\ ttCaptured' = ttCaptured + 1
    /\ ttPhase' = "running"
    /\ ttClock' = 0
    /\ ttSleeps' = n
    /\ ttSlept' = 0
    /\ ttEvent' = OriginalProperties
    /\ ttWorkerBusy' = TRUE
    /\ UNCHANGED <<ttFailures, ttEvents>>
    /\ TimeoutAtRest

\* when the plugin's next wait ends
NextWake == (ttSlept + 1) * SleepMs

\* one wait of the plugin ends before the deadline
TtPluginWakes ==
    /\ ttPhase = "running"
    /\ ttSlept < ttSleeps
    /\ NextWake <= Deadline
    /\ ttSlept' = ttSlept + 1
    /\ ttClock' = NextWake
    /\ UNCHANGED <<ttPhase, ttSleeps, ttEvent, ttWorkerBusy, ttFailures, ttCaptured, ttEvents>>
    /\ TimeoutAtRest

\* processEvent has made its waits: it replaces the properties and returns
TtPluginReturns ==
    /\ ttPhase = "running"
    /\ ttSlept = ttSleeps
    /\ ttEvent' = PluginProperties
    /\ ttPhase' = "returned"
    /\ UNCHANGED <<ttClock, ttSleeps, ttSlept, ttWorkerBusy, ttFailures, ttCaptured, ttEvents>>
    /\ TimeoutAtRest

\* the deadline passes while the plugin waits: the task is aborted with a
\* timeout failure, the worker is available, the event is as it came in
TtTimeout ==
    /\ ttPhase = "running"
    /\ ttSlept < ttSleeps
    /\ NextWake > Deadline
    /\ ttClock' = Deadline
    /\ ttPhase' = "timedOut"
    /\ ttFailures' = ttFailures + 1
    /\ ttWorkerBusy' = FALSE
    /\ UNCHANGED <<ttSleeps, ttSlept, ttEvent, ttCaptured, ttEvents>>
    /\ TimeoutAtRest

\* the event goes on to ingestion
TtIngest ==
    /\ ttPhase \in {"returned", "timedOut"}
    /\ ttEvents' = Append(ttEvents, [sleeps |-> ttSleeps, properties |-> ttEvent,
                                     timedOut |-> ttPhase = "timedOut"])
    /\ ttPhase' = "idle"
    /\ ttWorkerBusy' = FALSE
    /\ UNCHANGED <<ttClock, ttSleeps, ttSlept, ttEvent, ttFailures, ttCaptured>>
    /\ TimeoutAtRest

InitTimeout ==
    /\ TimeoutIdle /\ PoolIdle /\ IngestIdle /\ ScheduleIdle /\ LastIdle
    /\ IdentityIdle /\ PluginsIdle /\ LazyConstructed /\ RedlockStarted /\ ConsumerStarted

NextTimeout ==
    \/ \E n \in 0..MaxSleeps : TtCapture(n)
    \/ TtPluginWakes
    \/ TtPluginReturns
    \/ TtTimeout
    \/ TtIngest

SpecTimeout == InitTimeout /\ [][NextTimeout]_vars

\* ----------------------------------------------------- claims of Part VII
\* the plugin's processEvent runs longer than TASK_TIMEOUT
RunsLongerThanTimeout(n) == n * SleepMs > TASK_TIMEOUT * 1000

\* C22: when processEvent runs longer than TASK_TIMEOUT the task is aborted
\* with a timeout failure and the worker is available; the event is ingested
\* exactly once, with its original properties and nothing the plugin sets.
C22_TimeoutKeepsEvent ==
    /\ (ttPhase # "idle" /\ RunsLongerThanTimeout(ttSleeps)) =>
          /\ ttClock <= TASK_TIMEOUT * 1000
          /\ ttEvent = OriginalProperties
          /\ ttPhase = "timedOut" => ~ttWorkerBusy /\ ttFailures >= 1
    /\ Len(ttEvents) = IF ttPhase = "idle" THEN ttCaptured ELSE ttCaptured - 1
    /\ \A i \in DOMAIN ttEvents :
          RunsLongerThanTimeout(ttEvents[i].sleeps) =>
              ttEvents[i].timedOut /\ ttEvents[i].properties = OriginalProperties
    /\ ttFailures = Cardinality({i \in DOMAIN ttEvents : ttEvents[i].timedOut})
                    + (IF ttPhase = "timedOut" THEN 1 ELSE 0)

\* the plugin of the test, five waits of 800 ms: its event was ingested
C22_Witness ==
    /\ ttPhase = "idle" /\ Len(ttEvents) = 1 /\ ttFailures = 1
    /\ ttEvents[1].sleeps = 5 /\ ttEvents[1].properties.name = "haha"

\* ================================================================= Part VIII
\* The ingestEvent task of the worker, as 'piscina worker test' calls it.  A
\* uuid is given by the lengths of its groups of hex digits; createEvent()
\* sets none.
MaxIngestTasks == 3    \* ingestEvent tasks in one behaviour

IngestAtRest == EarlyAtRest /\ UNCHANGED <<poolVars, ttVars, lsVars, hsVars, haVars, upVars, tailVars>>

\* new UUIDT().toString()
ValidUuid == <<8, 4, 4, 4, 12>>

\* the uuids of the events handed to ingestEvent: none, cut short, a valid one
Uuids == {<<>>, <<8, 4, 4>>, ValidUuid}

\* a validation that lets every event pass
IsAnyUuid(uuid) == TRUE

IsValidUuid(uuid) == uuid = ValidUuid

\* `Not a valid UUID: "${uuid}"`
NotAValidUuid(uuid) == IF uuid = <<>> THEN "Not a valid UUID: undefined" ELSE "Not a valid UUID: malformed"

\* piscina.runTask({ task: 'ingestEvent', args: { event } })
IeRunTask(uuid) ==
    /\ ieTask.at = "none"
    /\ Len(ieResults) < MaxIngestTasks
    /\ ieTask' = [uuid |-> uuid, at |-> "validate", error |-> ""]
    /\ UNCHANGED <<ieResults, ieStored>>
    /\ IngestAtRest

\* the uuid is checked: an event without a valid uuid is dropped with an error
IeValidate ==
    /\ ieTask.at = "validate"
    /\ ieTask' = IF IsValidUuid(ieTask.uuid)
                 THEN [ieTask EXCEPT !.at = "process"]
                 ELSE [ieTask EXCEPT !.at = "failed", !.error = NotAValidUuid(ieTask.uuid)]
    /\ UNCHANGED <<ieResults, ieStored>>
    /\ IngestAtRest

\* the event is processed and stored
IeProcess ==
    /\ ieTask.at = "process"
    /\ ieStored' = Append(ieStored, Len(ieResults) + 1)
    /\ ieTask' = [ieTask EXCEPT !.at = "stored"]
    /\ UNCHANGED ieResults
    /\ IngestAtRest

\* the task resolves: { success: true } or { error: message }
IeResolves ==
    /\ ieTask.at \in {"stored", "failed"}
    /\ ieResults' = Append(ieResults,
                           [uuid |-> ieTask.uuid, how |-> "resolved",
                            tag |-> IF ieTask.at = "stored" THEN "success" ELSE "error",
                            error |-> ieTask.error])
    /\ ieTask' = NoTask
    /\ UNCHANGED ieStored
    /\ IngestAtRest

InitIngest ==
    /\ IngestIdle /\ PoolIdle /\ TimeoutIdle /\ ScheduleIdle /\ LastIdle
    /\ IdentityIdle /\ PluginsIdle /\ LazyConstructed /\ RedlockStarted /\ ConsumerStarted

NextIngest ==
    \/ \E uuid \in Uuids : IeRunTask(uuid)
    \/ IeValidate
    \/ IeProcess
    \/ IeResolves

SpecIngest == InitIngest /\ [][NextIngest]_vars

\* ---------------------------------------------------- claims of Part VIII
\* the events task number i has stored
StoredBy(i) == Cardinality({k \in DOMAIN ieStored : ieStored[k] = i})

\* C23: an ingestEvent task never throws to its caller: with a missing or
\* malformed uuid it resolves to a value tagged error and its event is
\* dropped, with a valid uuid it resolves to a value tagged success.
C23_IngestNeverThrows ==
    \A i \in DOMAIN ieResults :
        LET r == ieResults[i]
        IN  /\ r.how = "resolved"
            /\ IF r.uuid = ValidUuid
               THEN r.tag = "success" /\ r.error = "" /\ StoredBy(i) = 1
               ELSE r.tag = "error" /\ r.error # "" /\ StoredBy(i) = 0

\* createEvent() without a uuid, then an event with a uuid
C23_Witness ==
    /\ Len(ieResults) >= 2
    /\ ieResults[1].uuid = <<>> /\ ieResults[1].error = "Not a valid UUID: undefined"
    /\ ieResults[2].uuid = ValidUuid /\ ieResults[2].tag = "success"

\* ================================================================== Part IX
\* setupPlugins called again after the tables have changed: plugins and
\* configs are saved between the reloads, each save setting updated_at.
MaxUpdatedAt == 2      \* updated_at values a row takes

ReloadCodes == {"append", "brokenArchive"}

\* the plugin each config of the tests refers to
PluginOf(id) == IF id = 39 THEN 60 ELSE 61

ConfigIds == {39, 40}

\* a plugin is installed or upgraded: its row is written with a new updated_at
SavePlugin(p, code) ==
    /\ UpdatedAtIn(pluginRows, p) < MaxUpdatedAt
    /\ pluginRows' = [q \in DOMAIN pluginRows \cup {p} |->
                         IF q = p THEN [updated_at |-> UpdatedAtIn(pluginRows, p) + 1, code |-> code]
                         ELSE pluginRows[q]]
    /\ UNCHANGED <<configRows, srvPlugins, srvConfigs, srvPerTeam, vms, errorLog, setups,
                   run, pipelineRuns, downstream, idVars, extVars>>

\* the updated_at of the row of config id, 0 if there is none
ConfigUpdatedAt(id) ==
    IF \E r \in configRows : r.id = id
    THEN (CHOOSE r \in configRows : r.id = id).updated_at
    ELSE 0

\* a config is created or edited: its row is written with a new updated_at
SaveConfig(id) ==
    /\ ConfigUpdatedAt(id) < MaxUpdatedAt
    /\ configRows' = {r \in configRows : r.id # id} \cup
                     {[ConfigRow(id, PluginOf(id), 1) EXCEPT !.updated_at = ConfigUpdatedAt(id) + 1]}
    /\ UNCHANGED <<pluginRows, srvPlugins, srvConfigs, srvPerTeam, vms, errorLog, setups,
                   run, pipelineRuns, downstream, idVars, extVars>>

\* the server has started, the tables are empty
InitReload == PluginsIdle /\ IdentityIdle /\ ExtIdle

NextReload ==
    \/ \E p \in PluginIds, code \in ReloadCodes : SavePlugin(p, code)
    \/ \E id \in ConfigIds : SaveConfig(id)
    \/ SetupPlugins
    \/ VmResolve

SpecReload == InitReload /\ [][NextReload]_vars

\* ------------------------------------------------ claims of Parts II and IX
\* the config rows whose plugin_id names a plugin row
RowsWithPlugin == {row \in configRows : row.plugin_id \in DOMAIN pluginRows}

\* the row of the config and the row of its plugin are as the previous load saw them
UnchangedSince(row) ==
    /\ row.id \in DOMAIN srvConfigs
    /\ row.updated_at = srvConfigs[row.id].updated_at
    /\ row.plugin_id \in DOMAIN srvPlugins
    /\ pluginRows[row.plugin_id].updated_at = srvPlugins[row.plugin_id].updated_at

\* C24: on every setupPlugins a config keeps the VM it had if and only if a
\* config of its id was there before with the same updated_at and the
\* updated_at of its plugin is unchanged; any other config (and one that had
\* no VM) is loaded anew and does not use a VM that was there before.
C24_ReloadKeepsUnchanged ==
    [][setups' = setups + 1 =>
          \A row \in RowsWithPlugin :
              /\ row.id \in DOMAIN srvConfigs'
              /\ IF UnchangedSince(row) /\ srvConfigs[row.id].vm # 0
                 THEN srvConfigs'[row.id].vm = srvConfigs[row.id].vm
                 ELSE srvConfigs'[row.id].vm = 0 \/ srvConfigs'[row.id].vm > Len(vms)]_vars

\* C25: after setupPlugins, from any prior state of the server, server.plugins
\* holds the plugin rows read and server.pluginConfigs holds every config row
\* read whose plugin_id names one of them, each with that plugin.
C25_SetupLoadsTables ==
    setups >= 1 =>
        /\ srvPlugins = pluginRows
        /\ DOMAIN srvConfigs = {row.id : row \in RowsWithPlugin}
        /\ \A id \in DOMAIN srvConfigs :
              srvConfigs[id].plugin = pluginRows[srvConfigs[id].plugin_id]

\* =================================================================== Part X
\* setup.ts: loadSchedule.  setupPlugins sets server.pluginConfigs and calls
\* loadSchedule without awaiting it, so a call may start while an earlier one
\* still waits for a VM.  A call iterates the map that was server.pluginConfigs
\* when its loop began.
MaxLoads == 2          \* loadSchedule calls in one behaviour

ScheduleAtRest == EarlyAtRest /\ UNCHANGED <<poolVars, ttVars, ieVars, hsVars, haVars, upVars, tailVars>>

ScheduleNames == {"runEveryMinute", "runEveryHour", "runEveryDay"}

\* the configs of the test 'sets server.pluginSchedule once all plugins are
\* ready' and variants of them: without a VM, with tasks that are null, with
\* a task of another name
WithoutVm == [vm |-> FALSE, tasks |-> <<>>]
HourlyConfig == [vm |-> TRUE, tasks |-> ("runEveryMinute" :> "null" @@ "runEveryHour" :> "fn")]
MinuteConfig == [vm |-> TRUE, tasks |-> ("runEveryMinute" :> "fn" @@ "foo" :> "fn")]
DailyConfig == [vm |-> TRUE, tasks |-> ("runEveryMinute" :> "fn" @@ "runEveryDay" :> "fn")]

VariantsOf(id) ==
    CASE id = 1 -> {WithoutVm}
      [] id = 2 -> {HourlyConfig, DailyConfig}
      [] id = 3 -> {MinuteConfig, WithoutVm}

\* the maps server.pluginConfigs may be
ConfigMaps ==
    UNION {{m \in [ids -> {WithoutVm, HourlyConfig, MinuteConfig, DailyConfig}] :
               \A id \in ids : m[id] \in VariantsOf(id)} : ids \in SUBSET {1, 2, 3}}

\* the keys of a map in the order a for-of loop visits them
RECURSIVE KeyOrder(_)
KeyOrder(ids) ==
    IF ids = {} THEN <<>>
    ELSE LET least == CHOOSE i \in ids : \A j \in ids : i <= j
         IN  <<least>> \o KeyOrder(ids \ {least})

\* every task of a name of the schedule is listed, null or not
IsListedAnyTask(taskMap, name) == name \in DOMAIN taskMap /\ name \in ScheduleNames

\* if (task && taskName in pluginSchedule)
IsListed(taskMap, name) ==
    name \in DOMAIN taskMap /\ taskMap[name] # "null" /\ name \in ScheduleNames

\* (await pluginConfig.vm?.getTasks()) ?? {} and the loop over its entries
WithTasksOf(schedule, id, config) ==
    [name \in ScheduleNames |->
        IF config.vm /\ IsListed(config.tasks, name)
        THEN Append(schedule[name], id) ELSE schedule[name]]

\* loadSchedule is called, by setupPlugins after it has set
\* server.pluginConfigs: server.pluginSchedule = null and the loop begins; over
\* an empty map it ends at once
LsLoadSchedule(m) ==
    /\ Len(lsCalls) < MaxLoads
    /\ lsConfigs' = m
    /\ lsCalls' = Append(lsCalls, [map |-> m, keys |-> KeyOrder(DOMAIN m), pos |-> 1,
                                   local |-> EmptySchedule, done |-> DOMAIN m = {}])
    /\ lsSchedule' = IF DOMAIN m = {}
                     THEN [null |-> FALSE, lists |-> EmptySchedule, by |-> Len(lsCalls) + 1]
                     ELSE [lsSchedule EXCEPT !.null = TRUE]
    /\ UNCHANGED lsResolved
    /\ ScheduleAtRest

\* the promise of a VM settles
LsVmResolves(id) ==
    /\ id \in {1, 2, 3} \ lsResolved
    /\ lsResolved' = lsResolved \cup {id}
    /\ UNCHANGED <<lsConfigs, lsSchedule, lsCalls>>
    /\ ScheduleAtRest

\* call c goes on after await getTasks() of the config it is at; after the
\* last config server.pluginSchedule = pluginSchedule
LsGetTasks(c) ==
    /\ c \in DOMAIN lsCalls
    /\ ~lsCalls[c].done
    /\ LET call == lsCalls[c]
           id == call.keys[call.pos]
           local == WithTasksOf(call.local, id, call.map[id])
           last == call.pos = Len(call.keys)
       IN  /\ IF call.map[id].vm THEN id \in lsResolved ELSE TRUE
           /\ lsCalls' = [lsCalls EXCEPT ![c] = [call EXCEPT !.pos = call.pos + 1,
                                                            !.local = local, !.done = last]]
           /\ lsSchedule' = IF last THEN [null |-> FALSE, lists |-> local, by |-> c]
                            ELSE lsSchedule
    /\ UNCHANGED <<lsConfigs, lsResolved>>
    /\ ScheduleAtRest

InitSchedule ==
    /\ ScheduleIdle /\ PoolIdle /\ TimeoutIdle /\ IngestIdle /\ LastIdle
    /\ IdentityIdle /\ PluginsIdle /\ LazyConstructed /\ RedlockStarted /\ ConsumerStarted

NextSchedule ==
    \/ \E m \in ConfigMaps : LsLoadSchedule(m)
    \/ \E id \in {1, 2, 3} : LsVmResolves(id)
    \/ \E c \in 1..MaxLoads : LsGetTasks(c)

SpecSchedule == InitSchedule /\ [][NextSchedule]_vars

\* ------------------------------------------------------- claims of Part X
\* C26: from the moment loadSchedule starts until it completes
\* server.pluginSchedule is null, and it is set only after the tasks of every
\* config have been read.
C26_NullWhileLoading ==
    /\ (\E c \in DOMAIN lsCalls : ~lsCalls[c].done) => lsSchedule.null
    /\ ~lsSchedule.null =>
          /\ lsSchedule.by \in DOMAIN lsCalls
          /\ lsCalls[lsSchedule.by].pos > Len(lsCalls[lsSchedule.by].keys)

\* the ids of the configs of map m whose VM has a task of that name that is not null
ExpectedIds(m, name) ==
    SelectSeq(KeyOrder(DOMAIN m),
              LAMBDA id : m[id].vm /\ name \in DOMAIN m[id].tasks /\ m[id].tasks[name] = "fn")

\* C27: when loadSchedule completes, each of runEveryMinute, runEveryHour and
\* runEveryDay lists exactly the ids of the configs whose VM exposes a task
\* of that name that is not null; nothing else is listed.
C27_ScheduleLists ==
    /\ ~lsSchedule.null =>
          /\ DOMAIN lsSchedule.lists = ScheduleNames
          /\ \A name \in ScheduleNames :
                lsSchedule.lists[name] = ExpectedIds(lsCalls[lsSchedule.by].map, name)
    /\ \A c \in DOMAIN lsCalls :
          lsCalls[c].done =>
              \A name \in ScheduleNames : lsCalls[c].local[name] = ExpectedIds(lsCalls[c].map, name)

\* the schedule of the test: { runEveryMinute: [3], runEveryHour: [2], runEveryDay: [] }
C27_Witness ==
    /\ ~lsSchedule.null
    /\ lsCalls[lsSchedule.by].map = (1 :> WithoutVm @@ 2 :> HourlyConfig @@ 3 :> MinuteConfig)
    /\ lsSchedule.lists = [runEveryMinute |-> <<3>>, runEveryHour |-> <<2>>, runEveryDay |-> <<>>]

\* C36: when two loadSchedule runs overlap, server.pluginSchedule is null
\* until the last of them has finished, and its final value is the schedule
\* of the most recently loaded pluginConfigs, never that of the older map.
C36_LastLoadWins ==
    /\ (Len(lsCalls) = MaxLoads /\ \E c \in DOMAIN lsCalls : ~lsCalls[c].done) =>
          lsSchedule.null
    /\ (Len(lsCalls) = MaxLoads /\ \A c \in DOMAIN lsCalls : lsCalls[c].done) =>
          /\ ~lsSchedule.null
          /\ \A name \in ScheduleNames :
                lsSchedule.lists[name] = ExpectedIds(lsConfigs, name)

\* ================================================================== Part XI
\* EventsProcessor.handleTimestamp.  Times are in ms.  data.timestamp is a
\* string: <<>> when the event has none, <<"iso", t>> for the ISO form of
\* time t, <<"text">> for a string that is no ISO date.  DateTime.fromISO of
\* the latter is an invalid DateTime, or throws with Settings.throwOnInvalid.
MaxStamp == 2          \* the times 0..MaxStamp of now, timestamp, sent_at and offset

StampAtRest == EarlyAtRest /\ UNCHANGED <<poolVars, ttVars, ieVars, lsVars, haVars, upVars, tailVars>>

Stamps == 0..MaxStamp

DateTimeOf(t) == [kind |-> "time", ms |-> t]

InvalidDateTime == [kind |-> "invalid", ms |-> 0]

Thrown == [kind |-> "thrown", ms |-> 0]

TimestampStrings == {<<>>, <<"text">>} \cup {<<"iso", t>> : t \in Stamps}

\* DateTime.fromISO(text)
FromISO(text) == IF text[1] = "iso" THEN DateTimeOf(text[2]) ELSE InvalidDateTime

\* now.plus(timestamp.diff(sentAt)): the diff with an invalid DateTime is an
\* invalid Duration, and adding it gives an invalid DateTime
PlusDiff(now, timestamp, sentAt) ==
    IF timestamp.kind = "time" THEN DateTimeOf(now + (timestamp.ms - sentAt.ms))
    ELSE InvalidDateTime

HandleTimestampOf(data, now, sentAt, throwOnInvalid) ==
    IF data.timestamp # <<>>
    THEN IF sentAt.kind = "time" /\ ~(throwOnInvalid /\ FromISO(data.timestamp).kind = "invalid")
         THEN PlusDiff(now, FromISO(data.timestamp), sentAt)
         ELSE \* no sent_at, or the catch block: return DateTime.fromISO(data['timestamp'])
              IF throwOnInvalid /\ FromISO(data.timestamp).kind = "invalid"
              THEN Thrown
              ELSE FromISO(data.timestamp)
    ELSE IF data.offset # 0
         THEN DateTimeOf(now - data.offset)
         ELSE DateTimeOf(now)

\* processEvent calls handleTimestamp(data, now, sentAt)
HandleTimestamp ==
    /\ hsResult = NoDateTime
    /\ hsResult' = HandleTimestampOf(hsInput, hsInput.now, hsInput.sentAt, hsThrowOnInvalid)
    /\ UNCHANGED <<hsInput, hsThrowOnInvalid>>
    /\ StampAtRest

InitStamp ==
    /\ hsInput \in [timestamp : TimestampStrings, offset : Stamps, now : Stamps,
                    sentAt : {NoDateTime} \cup {DateTimeOf(t) : t \in Stamps}]
    /\ hsThrowOnInvalid \in BOOLEAN
    /\ hsResult = NoDateTime
    /\ PoolIdle /\ TimeoutIdle /\ IngestIdle /\ ScheduleIdle /\ NoAliasCalls /\ NoIdentify /\ TailIdle
    /\ IdentityIdle /\ PluginsIdle /\ LazyConstructed /\ RedlockStarted /\ ConsumerStarted

NextStamp == HandleTimestamp

SpecStamp == InitStamp /\ [][NextStamp]_vars

\* ------------------------------------------------------ claims of Part XI
\* the timestamp of the event is there and can be parsed
Parses(text) == text # <<>> /\ text[1] = "iso"

\* C28: the event time is now + (timestamp - sent_at) when timestamp and
\* sent_at are both present; the timestamp when it alone is present;
\* now - offset when there is no timestamp and an offset; now otherwise; a
\* timestamp that cannot be parsed falls through to the next rule.
C28_TimestampRules ==
    hsResult # NoDateTime =>
        hsResult =
            IF Parses(hsInput.timestamp) /\ hsInput.sentAt.kind = "time"
            THEN DateTimeOf(hsInput.now + (hsInput.timestamp[2] - hsInput.sentAt.ms))
            ELSE IF Parses(hsInput.timestamp)
            THEN DateTimeOf(hsInput.timestamp[2])
            ELSE IF hsInput.offset # 0
            THEN DateTimeOf(hsInput.now - hsInput.offset)
            ELSE DateTimeOf(hsInput.now)

\* ================================================================= Part XII
\* EventsProcessor.handleIdentifyOrAlias: the calls of alias it makes.  alias
\* is called before the first await of handleIdentifyOrAlias, so the call
\* and its arguments are settled in one step.
AliasAtRest == EarlyAtRest /\ UNCHANGED <<poolVars, ttVars, ieVars, lsVars, hsVars, upVars, tailVars>>

EventNames == {"capture", "$identify", "$create_alias"}

PropertyValues == {Undefined} \cup DistinctIds

\* if (properties['$anon_distinct_id']) ...: undefined is falsy
Truthy(value) == value # Undefined

AliasCallsOf(e) ==
    IF e.event = "$create_alias"
    THEN <<(<<e.alias, e.distinct_id>>)>>
    ELSE IF e.event = "$identify" /\ Truthy(e.anon_distinct_id)
    THEN <<(<<e.anon_distinct_id, e.distinct_id>>)>>
    ELSE <<>>

\* processEvent calls handleIdentifyOrAlias(event, properties, distinctId, teamId)
HaHandleIdentifyOrAlias ==
    /\ ~haEvent.called
    /\ haCalls' = haCalls \o AliasCallsOf(haEvent)
    /\ haEvent' = [haEvent EXCEPT !.called = TRUE]
    /\ AliasAtRest

InitAlias ==
    /\ haEvent \in [event : EventNames, distinct_id : DistinctIds, alias : PropertyValues,
                    anon_distinct_id : PropertyValues, called : {FALSE}]
    /\ haCalls = <<>>
    /\ PoolIdle /\ TimeoutIdle /\ IngestIdle /\ ScheduleIdle /\ StampIdle /\ NoIdentify /\ TailIdle
    /\ IdentityIdle /\ PluginsIdle /\ LazyConstructed /\ RedlockStarted /\ ConsumerStarted

NextAlias == HaHandleIdentifyOrAlias

SpecAlias == InitAlias /\ [][NextAlias]_vars

\* ----------------------------------------------------- claims of Part XII
\* C29: alias is invoked exactly so: for a $identify carrying
\* $anon_distinct_id, alias($anon_distinct_id, distinct_id); for a
\* $create_alias carrying alias, alias(alias, distinct_id); for every other
\* event, and for these two without the property, alias is not invoked.
C29_AliasInvocations ==
    haEvent.called =>
        haCalls =
            IF haEvent.event = "$identify" /\ haEvent.anon_distinct_id # Undefined
            THEN <<(<<haEvent.anon_distinct_id, haEvent.distinct_id>>)>>
            ELSE IF haEvent.event = "$create_alias" /\ haEvent.alias # Undefined
            THEN <<(<<haEvent.alias, haEvent.distinct_id>>)>>
            ELSE <<>>

\* ================================================================ Part XIII
\* EventsProcessor.updatePersonProperties, as processEvent runs it for a
\* $identify event carrying $set / $set_once: handleIdentifyOrAlias calls it
\* and setIsIdentified without await, and processEvent goes on to captureEE.
\* The store, the tasks and the steps of setIsIdentified and captureEE are
\* those of Part I.
PropsAtRest == UNCHANGED <<plVars, extVars>>

UpdatePersonPropertiesTask(distinctId) ==
    [Task EXCEPT !.fn = "updatePersonProperties", !.pc = "fetch", !.d1 = distinctId]

\* DB.createPerson with the properties the caller passes
CreatePersonWith(properties, isIdentified) ==
    /\ persons' = (nextPersonId :> PersonRow(Now, properties, isIdentified)) @@ persons
    /\ nextPersonId' = nextPersonId + 1
    /\ kafkaPerson' = (nextPersonId :> PersonRow(Now, properties, isIdentified)) @@ kafkaPerson
    /\ UNCHANGED injected

\* { ...propertiesOnce, ...personFound.properties, ...properties }
UpdatedProperties(propertiesOnce, found, properties) ==
    Spread(Spread(propertiesOnce, found), properties)

\* personFound!.properties: with personFound undefined the read throws, and
\* nobody holds the promise of updatePersonProperties
UpdatePersonPropertiesNext(t, found) ==
    IF Found(found)
    THEN /\ tasks' = Replace(t, <<[t EXCEPT !.p1 = found, !.pc = "updatePerson"]>>)
         /\ UNCHANGED unhandled
    ELSE /\ tasks' = Replace(t, <<>>)
         /\ unhandled' = unhandled \cup {"updatePersonProperties"}

\* processEvent for the $identify event: the three calls, each up to its
\* first await
ProcessIdentify ==
    /\ scenario = "props"
    /\ pending # <<>>
    /\ tasks' = AddAll(tasks, <<UpdatePersonPropertiesTask(Head(pending).distinct_id),
                                SetIsIdentifiedTask(Head(pending).distinct_id),
                                CaptureTask(Len(history) + 1, Head(pending).distinct_id)>>)
    /\ history' = Append(history, Head(pending))
    /\ pending' = Tail(pending)
    /\ UNCHANGED <<scenario, persons0, persons, pdi, cohortpeople, nextPersonId,
                   kafkaPerson, published, unhandled, injected, maxRuns, overlap>>
    /\ PropsAtRest

\* let personFound = await this.db.fetchPerson(teamId, distinctId)
UpdatePersonPropertiesFetch ==
    \E t \in Running("updatePersonProperties", "fetch") :
        /\ IF Found(FetchPerson(t.d1))
           THEN UpdatePersonPropertiesNext(t, FetchPerson(t.d1))
           ELSE /\ tasks' = Replace(t, <<[t EXCEPT !.pc = "createPerson"]>>)
                /\ UNCHANGED unhandled
        /\ Fixed /\ PersonsUnchanged
        /\ UNCHANGED <<pdi, cohortpeople, published, maxRuns>>

\* const personCreated = await this.db.createPerson(DateTime.utc(), properties, ...)
UpdatePersonPropertiesCreatePerson ==
    \E t \in Running("updatePersonProperties", "createPerson") :
        /\ \/ /\ CreatePersonWith(upEvent.set, FALSE)
              /\ tasks' = Replace(t, <<[t EXCEPT !.p2 = [id |-> nextPersonId,
                                                         created_at |-> Now,
                                                         properties |-> upEvent.set,
                                                         is_identified |-> FALSE],
                                                 !.pc = "addDistinctId"]>>)
           \/ /\ CreatePersonFails
              /\ tasks' = Replace(t, <<[t EXCEPT !.pc = "refetch"]>>)
        /\ Fixed
        /\ UNCHANGED <<pdi, cohortpeople, published, unhandled, maxRuns>>

\* await this.db.addDistinctId(personCreated, distinctId): refused, the catch
\* block fetches again; accepted, personFound is still undefined
UpdatePersonPropertiesAddDistinctId ==
    \E t \in Running("updatePersonProperties", "addDistinctId") :
        /\ IF CanAddDistinctId(t.p2, t.d1)
           THEN /\ pdi' = AddDistinctIdRows(t.p2, t.d1)
                /\ UpdatePersonPropertiesNext(t, t.p1)
           ELSE /\ tasks' = Replace(t, <<[t EXCEPT !.pc = "refetch"]>>)
                /\ UNCHANGED <<pdi, unhandled>>
        /\ Fixed /\ PersonsUnchanged
        /\ UNCHANGED <<cohortpeople, published, maxRuns>>

\* catch { personFound = await this.db.fetchPerson(teamId, distinctId) }
UpdatePersonPropertiesRefetch ==
    \E t \in Running("updatePersonProperties", "refetch") :
        /\ UpdatePersonPropertiesNext(t, FetchPerson(t.d1))
        /\ Fixed /\ PersonsUnchanged
        /\ UNCHANGED <<pdi, cohortpeople, published, maxRuns>>

\* return await this.db.updatePerson(personFound!, { properties: updatedProperties })
UpdatePersonPropertiesUpdate ==
    \E t \in Running("updatePersonProperties", "updatePerson") :
        /\ UpdatePerson(t.p1, [properties |->
                 UpdatedProperties(upEvent.set_once, t.p1.properties, upEvent.set)])
        /\ tasks' = Replace(t, <<>>)
        /\ Fixed
        /\ UNCHANGED <<pdi, cohortpeople, published, unhandled, maxRuns>>

\* one $identify event for "A" with $set and/or $set_once; "A" has no person
\* yet, or has person 1 with some stored properties
InitProps ==
    /\ scenario = "props"
    /\ pending = <<[event |-> "$identify", distinct_id |-> "A", other |-> ""]>>
    /\ history = <<>>
    /\ upEvent \in {e \in [distinct_id : {"A"}, set : PropMaps, set_once : PropMaps] :
                       e.set # EmptyProps \/ e.set_once # EmptyProps}
    /\ \/ /\ persons = <<>> /\ pdi = {} /\ nextPersonId = 1
       \/ /\ \E stored \in PropMaps, identified \in BOOLEAN :
                persons = (1 :> PersonRow(1, stored, identified))
          /\ pdi = {PdiRow("A", 1)} /\ nextPersonId = 2
    /\ kafkaPerson = persons /\ persons0 = persons
    /\ tasks = EmptyBag /\ maxRuns = 0
    /\ cohortpeople = {} /\ published = {} /\ unhandled = {} /\ injected = 0
    /\ overlap = FALSE
    /\ PluginsIdle /\ LazyConstructed /\ RedlockStarted /\ ConsumerStarted
    /\ PoolIdle /\ TimeoutIdle /\ IngestIdle /\ ScheduleIdle /\ StampIdle /\ NoAliasCalls /\ TailIdle

NextProps ==
    \/ ProcessIdentify
    \/ UpdatePersonPropertiesFetch \/ UpdatePersonPropertiesCreatePerson
    \/ UpdatePersonPropertiesAddDistinctId \/ UpdatePersonPropertiesRefetch
    \/ UpdatePersonPropertiesUpdate
    \/ SetIsIdentifiedFetch \/ SetIsIdentifiedCreatePerson
    \/ SetIsIdentifiedRefetch \/ SetIsIdentifiedUpdate
    \/ AddDistinctId
    \/ CaptureTeamQuery \/ CapturePdiCount \/ CaptureCreatePerson
    \/ CaptureAddDistinctId

SpecProps == InitProps /\ [][NextProps]_vars

\* ---------------------------------------------------- claims of Part XIII
\* the properties stored for the distinct id before the event
StoredBefore == IF 1 \in DOMAIN persons0 THEN persons0[1].properties ELSE EmptyProps

\* C30: once a $identify event carrying $set and/or $set_once is processed,
\* from any prior state, the one without a person for the distinct id
\* included, the stored properties of the person of the distinct id are
\* $set_once overlaid by the properties stored before overlaid by $set, and
\* updatePersonProperties has not failed.
C30_IdentifySetsProperties ==
    (scenario = "props" /\ history # <<>> /\ Quiescent) =>
        /\ "updatePersonProperties" \notin unhandled
        /\ Found(FetchPerson(upEvent.distinct_id))
        /\ FetchPerson(upEvent.distinct_id).properties =
               Spread(Spread(upEvent.set_once, StoredBefore), upEvent.set)

\* ================================================================= Part XIV
\* EventsProcessor.processEvent: what it publishes.  Each event has its own
\* uuid; the events are of one distinct id, and several workers may run
\* processEvent at the same time.
MaxPublished == 2      \* events handed to processEvent

HeadAtRest ==
    EarlyAtRest /\ UNCHANGED <<poolVars, ttVars, ieVars, lsVars, hsVars, haVars, upVars>>

HeadIdle ==
    /\ IdentityIdle /\ PluginsIdle /\ LazyConstructed /\ RedlockStarted /\ ConsumerStarted
    /\ PoolIdle /\ TimeoutIdle /\ IngestIdle /\ ScheduleIdle
    /\ StampIdle /\ NoAliasCalls /\ NoIdentify

PublishAtRest == HeadAtRest /\ UNCHANGED <<trVars, gqVars, amVars>>

PublishedNames == {"$snapshot", "$pageview", "$identify"}

KAFKA_EVENTS == "KAFKA_EVENTS"

KAFKA_SESSION_RECORDING_EVENTS == "KAFKA_SESSION_RECORDING_EVENTS"

\* the variant of IsSnapshot under which every event takes the captureEE branch
IsSnapshotNever(event) == FALSE

\* data['event'] === '$snapshot'
IsSnapshot(event) == event = "$snapshot"

PbGoes(i, pc) == pbAt' = [pbAt EXCEPT ![i] = pc]

PbSend(topic, uuid) == pbMessages' = Append(pbMessages, [topic |-> topic, key |-> uuid])

\* processEvent up to its first await: the branch on the event name
PbProcessEvent(i) ==
    /\ pbAt[i] = "called"
    /\ PbGoes(i, IF IsSnapshot(pbEvents[i].event) THEN "createSessionRecordingEvent"
                 ELSE "teamQuery")
    /\ UNCHANGED <<pbEvents, pbHasPerson, pbMessages>>
    /\ PublishAtRest

\* createSessionRecordingEvent: kafkaProducer.send on the session recording topic
PbCreateSessionRecordingEvent(i) ==
    /\ pbAt[i] = "createSessionRecordingEvent"
    /\ PbSend(KAFKA_SESSION_RECORDING_EVENTS, pbEvents[i].uuid)
    /\ PbGoes(i, "returned")
    /\ UNCHANGED <<pbEvents, pbHasPerson>>
    /\ PublishAtRest

\* captureEE: SELECT * FROM posthog_team; storeNamesAndProperties is started
\* and not awaited
PbTeamQuery(i) ==
    /\ pbAt[i] = "teamQuery"
    /\ PbGoes(i, "pdiCount")
    /\ UNCHANGED <<pbEvents, pbHasPerson, pbMessages>>
    /\ PublishAtRest

\* captureEE: SELECT COUNT(*) AS pdicount; if (!pdiCount) ...
PbPdiCount(i) ==
    /\ pbAt[i] = "pdiCount"
    /\ PbGoes(i, IF pbHasPerson THEN "createEvent" ELSE "createPerson")
    /\ UNCHANGED <<pbEvents, pbHasPerson, pbMessages>>
    /\ PublishAtRest

\* captureEE: try { await createPerson; await addDistinctId } catch {}: the
\* INSERTs go through, or one of them is refused and the catch swallows it
PbCreatePerson(i) ==
    /\ pbAt[i] = "createPerson"
    /\ pbHasPerson' \in {pbHasPerson, TRUE}
    /\ PbGoes(i, "createEvent")
    /\ UNCHANGED <<pbEvents, pbMessages>>
    /\ PublishAtRest

\* createEvent: kafkaProducer.send on the events topic
PbCreateEvent(i) ==
    /\ pbAt[i] = "createEvent"
    /\ PbSend(KAFKA_EVENTS, pbEvents[i].uuid)
    /\ PbGoes(i, "returned")
    /\ UNCHANGED <<pbEvents, pbHasPerson>>
    /\ PublishAtRest

InitPublish ==
    /\ \E n \in 1..MaxPublished :
          /\ \E names \in [1..n -> PublishedNames] :
                pbEvents = [i \in 1..n |-> [uuid |-> i, event |-> names[i]]]
          /\ pbAt = [i \in 1..n |-> "called"]
    /\ pbHasPerson \in BOOLEAN
    /\ pbMessages = <<>>
    /\ HeadIdle /\ TeamIdle /\ QueueIdle /\ MatchIdle

NextPublish ==
    \/ \E i \in DOMAIN pbEvents : PbProcessEvent(i)
    \/ \E i \in DOMAIN pbEvents : PbCreateSessionRecordingEvent(i)
    \/ \E i \in DOMAIN pbEvents : PbTeamQuery(i)
    \/ \E i \in DOMAIN pbEvents : PbPdiCount(i)
    \/ \E i \in DOMAIN pbEvents : PbCreatePerson(i)
    \/ \E i \in DOMAIN pbEvents : PbCreateEvent(i)

SpecPublish == InitPublish /\ [][NextPublish]_vars

\* ----------------------------------------------------- claims of Part XIV
\* the messages keyed by the uuid of event i
MessagesOf(i) == {k \in DOMAIN pbMessages : pbMessages[k].key = pbEvents[i].uuid}

MaxTeamEvents == 2     \* events of the team handled in one behaviour

TeamAtRest == HeadAtRest /\ UNCHANGED <<pbVars, gqVars, amVars>>

TeamEventNames == {"$pageview", "0"}

\* properties of an event: key and typeof value === 'number'
TeamProperties ==
    {{}, {[key |-> "$browser", number |-> FALSE]}, {[key |-> "price", number |-> TRUE]}}

Elements(array) == {array[k] : k \in DOMAIN array}

\* the own property keys of an array the model's names can hit: the index "0"
\* when the array has an element, and "length"
ArrayKeys(array) == {"length"} \cup (IF Len(array) >= 1 THEN {"0"} ELSE {})

\* key in array: the `in` operator tests the property keys of the array
In(key, array) == key \in ArrayKeys(array)

RECURSIVE PushProperties(_, _)
\* the loop over Object.entries(properties)
PushProperties(team, properties) ==
    IF properties = {} THEN team
    ELSE LET p == CHOOSE x \in properties : TRUE
             withKey == IF ~In(p.key, team.event_properties)
                        THEN [team EXCEPT !.event_properties = Append(@, p.key),
                                          !.save = TRUE]
                        ELSE team
             withNumber == IF p.number /\ ~In(p.key, withKey.event_properties_numerical)
                           THEN [withKey EXCEPT !.event_properties_numerical = Append(@, p.key),
                                                !.save = TRUE]
                           ELSE withKey
         IN  PushProperties(withNumber, properties \ {p})

\* storeNamesAndProperties up to its await: the team object after the pushes,
\* with the local `save`
StoredNamesAndProperties(team, event, properties) ==
    LET first == IF ~team.ingested_event
                 THEN [team EXCEPT !.ingested_event = TRUE, !.save = TRUE]
                 ELSE team
        named == IF ~In(event, first.event_names)
                 THEN [first EXCEPT !.event_names = Append(@, event), !.save = TRUE]
                 ELSE first
    IN  PushProperties(named, properties)

\* the row as the team object of a call, `save` false
TeamObject(row) ==
    [ingested_event |-> row.ingested_event, event_names |-> row.event_names,
     event_properties |-> row.event_properties,
     event_properties_numerical |-> row.event_properties_numerical, save |-> FALSE]

\* UPDATE posthog_team SET ingested_event = $1, event_names = $2, ...
UpdatedTeamRow(team) ==
    [ingested_event |-> team.ingested_event, event_names |-> team.event_names,
     event_properties |-> team.event_properties,
     event_properties_numerical |-> team.event_properties_numerical]

\* the event brings something the row does not hold
FirstSight(row, e) ==
    \/ ~row.ingested_event
    \/ e.event \notin Elements(row.event_names)
    \/ \E p \in e.properties :
          \/ p.key \notin Elements(row.event_properties)
          \/ p.number /\ p.key \notin Elements(row.event_properties_numerical)

\* captureEE: the team query returns and storeNamesAndProperties runs up to
\* its UPDATE
TrTeamQuery(i) ==
    /\ trCalls[i].pc = "called"
    /\ LET team == StoredNamesAndProperties(TeamObject(trRow), trEvents[i].event,
                                            trEvents[i].properties)
       IN  trCalls' = [trCalls EXCEPT ![i] =
                          [pc |-> IF team.save THEN "update" ELSE "returned",
                           team |-> team,
                           firstSight |-> FirstSight(trRow, trEvents[i])]]
    /\ UNCHANGED <<trRow, trEvents>>
    /\ TeamAtRest

\* the UPDATE of storeNamesAndProperties reaches the store
TrUpdate(i) ==
    /\ trCalls[i].pc = "update"
    /\ trRow' = UpdatedTeamRow(trCalls[i].team)
    /\ trCalls' = [trCalls EXCEPT ![i].pc = "written"]
    /\ UNCHANGED trEvents
    /\ TeamAtRest

InitTeam ==
    /\ \E n \in 1..MaxTeamEvents :
          /\ trEvents \in [1..n -> [event : TeamEventNames, properties : TeamProperties]]
          /\ trCalls = [i \in 1..n |-> [pc |-> "called", team |-> TeamObject(NewTeamRow),
                                        firstSight |-> FALSE]]
    /\ trRow = NewTeamRow
    /\ HeadIdle /\ PublishIdle /\ QueueIdle /\ MatchIdle

NextTeam ==
    \/ \E i \in DOMAIN trEvents : TrTeamQuery(i)
    \/ \E i \in DOMAIN trEvents : TrUpdate(i)

SpecTeam == InitTeam /\ [][NextTeam]_vars

\* ------------------------------------------------------ claims of Part XV
\* C32: in any interleaving of events of one team, also when two team-row
\* updates overlap, the event names, event properties and numerical
\* properties of the row only grow: what is stored is never removed by a
\* later write.
C32_TeamRowOnlyGrows ==
    [][/\ Elements(trRow.event_names) \subseteq Elements(trRow'.event_names)
       /\ Elements(trRow.event_properties) \subseteq Elements(trRow'.event_properties)
       /\ Elements(trRow.event_properties_numerical)
              \subseteq Elements(trRow'.event_properties_numerical)]_vars

NoDuplicates(array) == Cardinality(Elements(array)) = Len(array)

\* C39: the team row is written only on first sight: an event whose name
\* and properties are all stored causes no write, and each event name and
\* each property key occurs at most once in the stored lists.
C39_WrittenOnFirstSightOnly ==
    /\ \A i \in DOMAIN trCalls :
          trCalls[i].pc \in {"update", "written"} => trCalls[i].firstSight
    /\ NoDuplicates(trRow.event_names)
    /\ NoDuplicates(trRow.event_properties)
    /\ NoDuplicates(trRow.event_properties_numerical)

\* ================================================================= Part XVI
\* GraphileQueue: the consumer operations and syncState.  run() and
\* createPool() are awaited, so a call of syncState stands at one of its
\* awaits while other calls run.  With gqAwaited the caller awaits each
\* operation before it issues the next one.
MaxQueueCalls == 4     \* consumer operations called on the queue

QueueAtRest == HeadAtRest /\ UNCHANGED <<pbVars, trVars, amVars>>

QueueOps == {"startConsumer", "stopConsumer", "pauseConsumer", "resumeConsumer"}

\* the variant of NoRunner under which syncState never finds a runner
NoRunnerEver(runner) == TRUE

\* !this.runner
NoRunner(runner) == runner = 0

Polling == {r \in DOMAIN gqRunners : gqRunners[r] = "polling"}

\* what the queue is once a call has returned
QueueState(op, polling) ==
    [op |-> op, started |-> gqStarted', paused |-> gqPaused', runner |-> gqRunner',
     polling |-> polling]

GqReturns(c, polling) ==
    /\ gqCalls' = [gqCalls EXCEPT ![c].pc = "returned"]
    /\ gqLog' = Append(gqLog, QueueState(gqCalls[c].op, polling))

\* the operation sets its flag and runs syncState up to its first await
GqCall(op) ==
    /\ Len(gqCalls) < MaxQueueCalls
    /\ gqAwaited => \A c \in DOMAIN gqCalls : gqCalls[c].pc = "returned"
    /\ gqStarted' = IF op = "startConsumer" THEN TRUE
                    ELSE IF op = "stopConsumer" THEN FALSE ELSE gqStarted
    /\ gqPaused' = IF op = "pauseConsumer" THEN TRUE
                   ELSE IF op = "resumeConsumer" THEN FALSE ELSE gqPaused
    /\ IF gqStarted' /\ ~gqPaused'
       THEN /\ UNCHANGED gqRunner
            /\ IF NoRunner(gqRunner)
               THEN /\ gqCalls' = Append(gqCalls, [op |-> op, pc |-> "createPool", oldRunner |-> 0])
                    /\ UNCHANGED gqLog
               ELSE /\ gqCalls' = Append(gqCalls, [op |-> op, pc |-> "returned", oldRunner |-> 0])
                    /\ gqLog' = Append(gqLog, QueueState(op, Polling))
       ELSE IF gqRunner # 0
            THEN /\ gqRunner' = 0
                 /\ gqCalls' = Append(gqCalls, [op |-> op, pc |-> "stop", oldRunner |-> gqRunner])
                 /\ UNCHANGED gqLog
            ELSE /\ UNCHANGED gqRunner
                 /\ gqCalls' = Append(gqCalls, [op |-> op, pc |-> "returned", oldRunner |-> 0])
                 /\ gqLog' = Append(gqLog, QueueState(op, Polling))
    /\ UNCHANGED <<gqConsumerPool, gqRunners, gqPools, gqAwaited>>
    /\ QueueAtRest

\* this.consumerPool = await this.createPool()
GqCreatePool(c) ==
    /\ gqCalls[c].pc = "createPool"
    /\ gqPools' = Append(gqPools, "open")
    /\ gqConsumerPool' = Len(gqPools) + 1
    /\ gqCalls' = [gqCalls EXCEPT ![c].pc = "run"]
    /\ UNCHANGED <<gqStarted, gqPaused, gqRunner, gqRunners, gqLog, gqAwaited>>
    /\ QueueAtRest

\* this.runner = await run({ pgPool: this.consumerPool, ... })
GqRun(c) ==
    /\ gqCalls[c].pc = "run"
    /\ gqRunners' = Append(gqRunners, "polling")
    /\ gqRunner' = Len(gqRunners) + 1
    /\ UNCHANGED <<gqStarted, gqPaused>>
    /\ GqReturns(c, Polling \cup {Len(gqRunners) + 1})
    /\ UNCHANGED <<gqConsumerPool, gqPools, gqAwaited>>
    /\ QueueAtRest

\* await oldRunner?.stop()
GqStop(c) ==
    /\ gqCalls[c].pc = "stop"
    /\ gqRunners' = [gqRunners EXCEPT ![gqCalls[c].oldRunner] = "stopped"]
    /\ gqCalls' = [gqCalls EXCEPT ![c].pc = "endPool"]
    /\ UNCHANGED <<gqStarted, gqPaused, gqRunner, gqConsumerPool, gqPools, gqLog, gqAwaited>>
    /\ QueueAtRest

\* await this.consumerPool?.end()
GqEndPool(c) ==
    /\ gqCalls[c].pc = "endPool"
    /\ gqPools' = IF gqConsumerPool # 0
                  THEN [gqPools EXCEPT ![gqConsumerPool] = "ended"] ELSE gqPools
    /\ UNCHANGED <<gqStarted, gqPaused, gqRunner>>
    /\ GqReturns(c, Polling)
    /\ UNCHANGED <<gqConsumerPool, gqRunners, gqAwaited>>
    /\ QueueAtRest

InitQueueCalls(awaited) ==
    /\ QueueConstructed
    /\ gqAwaited = awaited
    /\ gqCalls = <<>> /\ gqLog = <<>>
    /\ HeadIdle /\ PublishIdle /\ TeamIdle /\ MatchIdle

InitQueue == InitQueueCalls(FALSE)

InitQueueAwaited == InitQueueCalls(TRUE)

NextQueue ==
    \/ \E op \in QueueOps : GqCall(op)
    \/ \E c \in DOMAIN gqCalls : GqCreatePool(c)
    \/ \E c \in DOMAIN gqCalls : GqRun(c)
    \/ \E c \in DOMAIN gqCalls : GqStop(c)
    \/ \E c \in DOMAIN gqCalls : GqEndPool(c)

SpecQueue == InitQueue /\ [][NextQueue]_vars

SpecQueueAwaited == InitQueueAwaited /\ [][NextQueue]_vars

\* ----------------------------------------------------- claims of Part XVI
\* the pause and resume calls made
PauseResumeCalls ==
    {c \in DOMAIN gqCalls : gqCalls[c].op \in {"pauseConsumer", "resumeConsumer"}}

\* C33: pauseConsumer and resumeConsumer are idempotent: two pauses in a row
\* leave the consumer as one pause does (paused, no runner), two resumes in
\* a row as one resume does (not paused, one runner if started);
\* isConsumerPaused reports the effect of the last of these calls.
C33_PauseResumeIdempotent ==
    /\ \A k \in DOMAIN gqLog :
          /\ gqLog[k].op = "pauseConsumer" =>
                gqLog[k].paused /\ gqLog[k].runner = 0 /\ gqLog[k].polling = {}
          /\ gqLog[k].op = "resumeConsumer" =>
                /\ ~gqLog[k].paused
                /\ gqLog[k].polling = IF gqLog[k].started THEN {gqLog[k].runner} ELSE {}
                /\ gqLog[k].started <=> gqLog[k].runner # 0
          /\ (/\ k > 1
              /\ gqLog[k].op = gqLog[k - 1].op
              /\ gqLog[k].op \in {"pauseConsumer", "resumeConsumer"}) =>
                 gqLog[k] = gqLog[k - 1]
    /\ \A c \in PauseResumeCalls :
          (\A d \in PauseResumeCalls : d <= c) =>
              (gqPaused <=> gqCalls[c].op = "pauseConsumer")

\* started, paused, then resumed twice, each call awaited
C33_Witness ==
    /\ Len(gqLog) = 4
    /\ gqLog[1].op = "startConsumer" /\ gqLog[2].op = "pauseConsumer"
    /\ gqLog[3].op = "resumeConsumer" /\ gqLog[4].op = "resumeConsumer"

\* C34: in any interleaving of startConsumer, pauseConsumer, resumeConsumer
\* and stopConsumer, also with calls issued while an earlier one awaits the
\* pool or the runner, at most one runner exists at any time and no runner
\* is created that the queue loses track of.
C34_AtMostOneRunner ==
    /\ Cardinality(Polling) <= 1
    /\ \A r \in Polling :
          \/ gqRunner = r
          \/ \E c \in DOMAIN gqCalls : gqCalls[c].pc = "stop" /\ gqCalls[c].oldRunner = r

\* C35: whenever all pending consumer operations have finished, a runner is
\* polling iff the consumer is started and not paused: a pause or stop
\* issued while a start or resume creates its runner leaves none polling.
C35_PollingIffStartedNotPaused ==
    (\A c \in DOMAIN gqCalls : gqCalls[c].pc = "returned") =>
        (Polling # {} <=> gqStarted /\ ~gqPaused)

\* ================================================================ Part XVII
\* action-matcher.ts: ActionMatcher.match.  Strings that are only compared
\* are strings, "" being the unset (falsy) value; URLs are sequences of
\* characters, <<>> the missing one; a property the event does not carry is
\* no key of its properties.  The steps use the url_matching values exact
\* and contains, the filters the operators exact and is_set.
MaxSteps == 2          \* steps of the action under test

MatchAtRest == HeadAtRest /\ UNCHANGED <<pbVars, trVars, gqVars>>

Teams == {1, 2}

\* ---- the inputs
UrlAB == <<"a", "b">>
UrlBA == <<"b", "a">>

NoElements == <<>>
LinkElement == <<[href |-> "h1", text |-> "t1", tag_name |-> "a"]>>
ButtonElement == <<[href |-> "", text |-> "t1", tag_name |-> "button"]>>

MatchedEvents ==
    [team_id : Teams, event : {"$pageview", "$autocapture"},
     current_url : {<<>>, UrlAB, UrlBA},
     elements : {NoElements, LinkElement, ButtonElement},
     properties : {EmptyProps, [k |-> "v1"], [k |-> "v2"]}]

ExactFilter == [type |-> "event", key |-> "k", operator |-> "exact", value |-> {"v1"}]
IsSetFilter == [type |-> "person", key |-> "k", operator |-> "is_set", value |-> {""}]
TagFilter == [type |-> "element", key |-> "tag_name", operator |-> "exact", value |-> {"a"}]
CohortFilter == [type |-> "cohort", key |-> "id", operator |-> "exact", value |-> {"v1"}]

AnyStep ==
    [href |-> "", text |-> "", tag_name |-> "", url_matching |-> "", url |-> <<>>,
     event |-> "", properties |-> <<>>]

MatchedSteps ==
    {AnyStep,
     [AnyStep EXCEPT !.href = "h1"],
     [AnyStep EXCEPT !.text = "t1", !.tag_name = "button"],
     [AnyStep EXCEPT !.tag_name = "a"],
     [AnyStep EXCEPT !.url_matching = "exact", !.url = UrlAB],
     [AnyStep EXCEPT !.url_matching = "contains", !.url = <<"_", "a">>],
     [AnyStep EXCEPT !.event = "$pageview"],
     [AnyStep EXCEPT !.properties = <<ExactFilter>>],
     [AnyStep EXCEPT !.properties = <<IsSetFilter, ExactFilter>>],
     [AnyStep EXCEPT !.properties = <<TagFilter>>],
     [AnyStep EXCEPT !.properties = <<IsSetFilter, CohortFilter>>],
     [AnyStep EXCEPT !.event = "$autocapture", !.href = "h1", !.properties = <<ExactFilter>>]}

\* ---- the code
\* actionManager.getTeamActions(team_id): the actions of the team
GetTeamActions(teamId) == {a \in DOMAIN amActions : amActions[a].team_id = teamId}

\* checkStepElement
CheckStepElement(elements, step) ==
    IF step.href # "" \/ step.text # ""
    THEN \E i \in DOMAIN elements :
            /\ step.href # "" => elements[i].href = step.href
            /\ step.tag_name # "" => elements[i].tag_name = step.tag_name
            /\ step.text # "" => elements[i].text = step.text
    ELSE TRUE

\* new RegExp(`.*${adjusted}.*`).test(eventUrl), `_` standing for any character
UrlContains(stepUrl, eventUrl) ==
    \E at \in 0..(Len(eventUrl) - Len(stepUrl)) :
        \A j \in DOMAIN stepUrl : stepUrl[j] = "_" \/ stepUrl[j] = eventUrl[at + j]

\* checkStepUrl
CheckStepUrl(event, step) ==
    IF step.url_matching # ""
    THEN IF event.current_url = <<>> THEN FALSE
         ELSE IF step.url_matching = "contains" THEN UrlContains(step.url, event.current_url)
         ELSE step.url = event.current_url
    ELSE TRUE

\* checkStepEvent
CheckStepEvent(event, step) == ~(step.event # "" /\ event.event # step.event)

\* checkPropertiesAgainstFilter: possibleValues.some(test)
CheckPropertiesAgainstFilter(properties, filter) ==
    IF filter.operator = "is_set"
    THEN filter.key \in DOMAIN properties
    ELSE filter.key \in DOMAIN properties /\ properties[filter.key] \in filter.value

\* checkEventAgainstFilter and the four functions it dispatches to
CheckEventAgainstFilter(event, elements, filter) ==
    CASE filter.type \in {"event", "person"} ->
            CheckPropertiesAgainstFilter(event.properties, filter)
      [] filter.type = "element" ->
            \E i \in DOMAIN elements : CheckPropertiesAgainstFilter(elements[i], filter)
      [] OTHER -> FALSE

\* checkStepFilters
CheckStepFilters(event, elements, step) ==
    IF Len(step.properties) > 0
    THEN \A k \in DOMAIN step.properties :
            CheckEventAgainstFilter(event, elements, step.properties[k])
    ELSE TRUE

\* the variant of CheckStep that leaves the filters of the step out
CheckStepWithoutFilters(event, elements, step) ==
    /\ CheckStepElement(elements, step)
    /\ CheckStepUrl(event, step)
    /\ CheckStepEvent(event, step)

\* checkStep
CheckStep(event, elements, step) ==
    /\ CheckStepElement(elements, step)
    /\ CheckStepUrl(event, step)
    /\ CheckStepEvent(event, step)
    /\ CheckStepFilters(event, elements, step)

\* checkAction: action.steps.some(...)
CheckAction(event, elements, action) ==
    \E s \in DOMAIN action.steps : CheckStep(event, elements, action.steps[s])

\* match: the ids of the actions returned
Match(event) == {a \in GetTeamActions(event.team_id) : CheckAction(event, event.elements, amActions[a])}

\* a worker calls match(event)
AmMatch ==
    /\ ~amResult.returned
    /\ amResult' = [returned |-> TRUE, actions |-> Match(amEvent)]
    /\ UNCHANGED <<amActions, amEvent>>
    /\ MatchAtRest

\* action 1 is an action of team 1 with any steps; action 2 is an action of
\* team 2 that every event matches
InitMatch ==
    /\ \E n \in 0..MaxSteps :
          \E steps \in [1..n -> MatchedSteps] :
              amActions = (1 :> [team_id |-> 1, steps |-> steps])
                          @@ (2 :> [team_id |-> 2, steps |-> <<AnyStep>>])
    /\ amEvent \in MatchedEvents
    /\ amResult = NotMatched
    /\ HeadIdle /\ PublishIdle /\ TeamIdle /\ QueueIdle

NextMatch == AmMatch

SpecMatch == InitMatch /\ [][NextMatch]_vars

\* ---------------------------------------------------- claims of Part XVII
\* the characters of the URL from position first on have the pattern as a
\* prefix, `_` being any character
PatternAt(pattern, url, first) ==
    /\ first + Len(pattern) - 1 <= Len(url)
    /\ \A j \in 1..Len(pattern) : pattern[j] \in {"_", url[first + j - 1]}

\* the filter matches the event
FilterMatches(filter) ==
    CASE filter.type = "cohort" -> FALSE
      [] filter.type = "element" ->
            \E i \in DOMAIN amEvent.elements : amEvent.elements[i][filter.key] \in filter.value
      [] filter.operator = "is_set" -> filter.key \in DOMAIN amEvent.properties
      [] OTHER -> /\ filter.key \in DOMAIN amEvent.properties
                  /\ amEvent.properties[filter.key] \in filter.value

\* the step passes the four checks; a check whose field is unset passes
StepPasses(step) ==
    /\ (step.href # "" \/ step.text # "") =>
           \E i \in DOMAIN amEvent.elements :
               /\ step.href # "" => amEvent.elements[i].href = step.href
               /\ step.text # "" => amEvent.elements[i].text = step.text
               /\ step.tag_name # "" => amEvent.elements[i].tag_name = step.tag_name
    /\ step.url_matching = "exact" => amEvent.current_url = step.url
    /\ step.url_matching = "contains" =>
           \E first \in DOMAIN amEvent.current_url :
               PatternAt(step.url, amEvent.current_url, first)
    /\ step.event # "" => amEvent.event = step.event
    /\ \A k \in DOMAIN step.properties : FilterMatches(step.properties[k])

====
